---- MODULE Spec2Model ----
(***************************************************************************)
(* A model of chem_assistant (autochem): the GAMESS / PSI4 job builders    *)
(* (interfaces/gamess.py, interfaces/psi.py) and the GAMESS log reader     *)
(* (interfaces/gamess_results.py).                                         *)
(*                                                                         *)
(* Text is modelled as a sequence of tokens.  A token is a record          *)
(* [k, n]: k is the kind ("num" for a run of digits whose value is n, or   *)
(* the literal text of the token), so that formatting and parsing are      *)
(* separate operators and not the identity.                                *)
(***************************************************************************)
EXTENDS Integers, Sequences, FiniteSets, TLC

\* ------------------------------------------------------------------------
\* Bounds of the model
\* ------------------------------------------------------------------------
MaxAtoms == 3

\* ------------------------------------------------------------------------
\* Generic helpers
\* ------------------------------------------------------------------------
Range(s) == {s[i] : i \in DOMAIN s}

Min(S) == CHOOSE x \in S : \A y \in S : x <= y

Injective(s) == \A i, j \in DOMAIN s : s[i] = s[j] => i = j

RECURSIVE Concat(_)
Concat(ss) == IF ss = << >> THEN << >> ELSE Head(ss) \o Concat(Tail(ss))

\* ------------------------------------------------------------------------
\* Text tokens
\* ------------------------------------------------------------------------
Num(i)  == [k |-> "num", n |-> i]
Kw(s)   == [k |-> s, n |-> 0]
Comma   == Kw(",")
Minus   == Kw("-")
NL      == Kw("\n")

\* str(i) of a Python int
IntStr(i) == IF i < 0 THEN <<Minus, Num(-i)>> ELSE <<Num(i)>>

\* int(s) of a Python string holding a decimal integer
ParseInt(s) == IF s[1] = Minus THEN -(s[2].n) ELSE s[1].n

\* s.split(sep): the fields between the separators, empty fields included
RECURSIVE SplitAcc(_, _, _)
SplitAcc(s, sep, cur) ==
    IF s = << >> THEN <<cur>>
    ELSE IF Head(s) = sep THEN <<cur>> \o SplitAcc(Tail(s), sep, << >>)
    ELSE SplitAcc(Tail(s), sep, Append(cur, Head(s)))

Split(s, sep) == SplitAcc(s, sep, << >>)

\* sep.join(parts)
RECURSIVE Join(_, _)
Join(parts, sep) ==
    IF parts = << >> THEN << >>
    ELSE IF Len(parts) = 1 THEN parts[1]
    ELSE parts[1] \o <<sep>> \o Join(Tail(parts), sep)

\* ------------------------------------------------------------------------
\* The fragment model (Molecule.separate, core/molecule.py)
\* ------------------------------------------------------------------------
Charges        == {-1, 0, 1}
Multiplicities == {1, 2}

\* the contiguous atom ranges cut out of 1..n by the cut positions in cuts
Blocks(n, cuts) ==
    { <<lo, hi>> \in (1..n) \X (1..n) :
        /\ lo = 1 \/ (lo - 1) \in cuts
        /\ hi = Min({c \in cuts \cup {n} : c >= lo}) }

AtomsOf(b) == [i \in 1..(b[2] - b[1] + 1) |-> b[1] + i - 1]

\* the orders in which a fragment map may iterate over the units of a
\* partition of the atoms 1..n
FragmentOrders(n) ==
    UNION { { o \in [1..Cardinality(Blocks(n, cuts)) -> Blocks(n, cuts)] : Injective(o) }
            : cuts \in SUBSET (1..(n - 1)) }

\* the species label of a unit
SpeciesName(charge) ==
    IF charge < 0 THEN "acetate" ELSE IF charge > 0 THEN "choline" ELSE "water"

\* the fragment maps of a molecule of n atoms: the units of a partition of
\* the atoms, in any iteration order, each with a charge and a multiplicity,
\* and at most one of them the ionic network
FragmentMap(o, c, m, ion) ==
    [i \in DOMAIN o |->
        [name         |-> SpeciesName(c[i]),
         atoms        |-> AtomsOf(o[i]),
         charge       |-> c[i],
         multiplicity |-> m[i],
         frag_type    |-> IF i = ion THEN "ionic" ELSE "frag"]]

FragmentMaps(n, charges, mults) ==
    UNION { { FragmentMap(o, c, m, ion) :
              c \in [DOMAIN o -> charges], m \in [DOMAIN o -> mults],
              ion \in 0..Len(o) }
            : o \in FragmentOrders(n) }

\* fragments is one of FragmentMaps(n, charges, mults) for an n in 1..maxAtoms
IsFragmentMap(frags, maxAtoms, charges, mults) ==
    \E n \in 1..maxAtoms : \E o \in FragmentOrders(n) :
        \E c \in [DOMAIN o -> charges], m \in [DOMAIN o -> mults],
           ion \in 0..Len(o) :
           frags = FragmentMap(o, c, m, ion)

VARIABLES
    fragments,   \* self.mol.fragments, in iteration order
    runtyp,      \* self.input.contrl.runtyp
    molIndat,    \* self.mol.indat  ([has |-> attribute exists, v |-> value])
    molCharg,    \* self.mol.charg
    indat,       \* self.indat
    charg,       \* self.charg
    fmoData,     \* the string returned by fmo_formatting
    fmoPc        \* "init", "done" or "raised"

fmoVars == <<fragments, runtyp, molIndat, molCharg, indat, charg, fmoData, fmoPc>>

RunTypes == {"optimize", "energy", "hessian"}

\* f"0,{first.index},-{last.index},"
IndatUnnegated(atoms) ==
    <<Num(0), Comma>> \o IntStr(atoms[1]) \o <<Comma>>
        \o IntStr(atoms[Len(atoms)]) \o <<Comma>>

IndatStr(atoms) ==
    <<Num(0), Comma>> \o IntStr(atoms[1]) \o <<Comma, Minus>>
        \o IntStr(atoms[Len(atoms)]) \o <<Comma>>

\* info holds the entries of frag_type 'frag' only
FragInfoFragsOnly(frags) ==
    LET fs == SelectSeq(frags, LAMBDA f : f.frag_type = "frag")
    IN  [i \in DOMAIN fs |->
            [indat |-> IndatStr(fs[i].atoms), charg |-> IntStr(fs[i].charge)]]

\* info[frag] = {"indat": ..., "charg": str(data['charge'])}, in map order
FragInfo(frags) ==
    [i \in DOMAIN frags |->
        [indat |-> IndatStr(frags[i].atoms), charg |-> IntStr(frags[i].charge)]]

\* key = lambda val: int(val[1]['indat'].split(',')[1])
SortKey(val) == ParseInt(Split(val.indat, Comma)[2])

\* sorted(..., key): stable, ascending
RECURSIVE InsertByKey(_, _)
InsertByKey(x, s) ==
    IF s = << >> THEN <<x>>
    ELSE IF SortKey(x) < SortKey(Head(s)) THEN <<x>> \o s
    ELSE <<Head(s)>> \o InsertByKey(x, Tail(s))

RECURSIVE SortedAcc(_, _)
SortedAcc(s, acc) ==
    IF s = << >> THEN acc ELSE SortedAcc(Tail(s), InsertByKey(Head(s), acc))

SortedInfoMapOrder(info) == info

SortedInfo(info) == SortedAcc(info, << >>)

\* fmo_meta: the values bound to self.indat and self.charg
MetaIndat(frags) ==
    LET si == SortedInfo(FragInfo(frags))
    IN  [i \in DOMAIN si |-> si[i].indat] \o << <<Num(0)>> >>

MetaCharg(frags) ==
    LET si == SortedInfo(FragInfo(frags))
    IN  [i \in DOMAIN si |-> si[i].charg]

NBody(rt)  == IF rt \in {"optimize", "hessian"} THEN 2 ELSE 3
RCorsd(rt) == IF rt \in {"optimize", "hessian"} THEN 100 ELSE 50

RECURSIVE IndatLines(_)
IndatLines(ds) ==
    IF ds = << >> THEN << >> ELSE Head(ds) \o <<NL>> \o IndatLines(Tail(ds))

\* the string built by fmo_formatting from self.mol.indat[0], self.indat[1:]
\* and self.mol.charg
FmoString(nfrag, rt, mIndat, sIndat, mCharg) ==
    <<NL, Kw("NFRAG="), Num(nfrag), Kw("NBODY="), Num(NBody(rt)), NL,
      Kw("MPLEVL(1)=2"), NL, Kw("INDAT(1)=")>> \o mIndat[1] \o <<NL>>
    \o IndatLines(Tail(sIndat))
    \o <<Kw("ICHARG(1)=")>> \o Join(mCharg, Comma) \o <<NL>>
    \o <<Kw("RESPAP=0 RESPPC=-1 RESDIM=100 RCORSD="), Num(RCorsd(rt))>>

\* the values self.mol.indat / self.mol.charg may hold when fmo_formatting
\* reads them: the attribute is absent, or it holds the metadata of this
\* fragment map, or the metadata of the unseparated molecule
NoAttr == [has |-> FALSE, v |-> << >>]

WholeMolecule(frags) ==
    LET n == Len(Concat([i \in DOMAIN frags |-> frags[i].atoms]))
    IN  << [name |-> SpeciesName(0), atoms |-> [i \in 1..n |-> i], charge |-> 0,
            multiplicity |-> 1, frag_type |-> "frag"] >>

MolMeta(frags) ==
    { [indat |-> NoAttr, charg |-> NoAttr],
      [indat |-> [has |-> TRUE, v |-> MetaIndat(frags)],
       charg |-> [has |-> TRUE, v |-> MetaCharg(frags)]],
      [indat |-> [has |-> TRUE, v |-> MetaIndat(WholeMolecule(frags))],
       charg |-> [has |-> TRUE, v |-> MetaCharg(WholeMolecule(frags))]] }

FmoInit ==
    /\ IsFragmentMap(fragments, MaxAtoms, Charges, {1})
    /\ runtyp \in RunTypes
    /\ \E m \in MolMeta(fragments) : molIndat = m.indat /\ molCharg = m.charg
    /\ indat = << >>
    /\ charg = << >>
    /\ fmoData = << >>
    /\ fmoPc = "init"

FmoIdle ==
    /\ runtyp = "optimize"
    /\ molIndat = NoAttr
    /\ molCharg = NoAttr
    /\ indat = << >>
    /\ charg = << >>
    /\ fmoData = << >>
    /\ fmoPc = "idle"

\* fmo_formatting, with its call of fmo_meta; it raises when self.mol has no
\* indat or charg attribute
fmo_formatting ==
    /\ fmoPc = "init"
    /\ indat' = MetaIndat(fragments)
    /\ charg' = MetaCharg(fragments)
    /\ IF molIndat.has /\ molCharg.has /\ molIndat.v # << >>
       THEN /\ fmoData' = FmoString(Len(fragments), runtyp, molIndat.v,
                                    indat', molCharg.v)
            /\ fmoPc' = "done"
       ELSE /\ fmoData' = fmoData
            /\ fmoPc' = "raised"
    /\ UNCHANGED <<fragments, runtyp, molIndat, molCharg>>

FmoNext == fmo_formatting

\* ------------------------------------------------------------------------
\* Properties of the FMO metadata (checked under SpecFmo)
\* ------------------------------------------------------------------------

\* the integer fields of a comma separated string, empty fields dropped
IntFields(s) ==
    LET fs == Split(s, Comma)
        RECURSIVE NonEmpty(_)
        NonEmpty(q) == IF q = << >> THEN << >>
                       ELSE IF Head(q) = << >> THEN NonEmpty(Tail(q))
                       ELSE <<ParseInt(Head(q))>> \o NonEmpty(Tail(q))
    IN  NonEmpty(fs)

FmoMetaRan == fmoPc \in {"done", "raised"}

Sentinel == <<Num(0)>>

\* C1: whatever the iteration order of the fragment map, the INDAT list of
\* fmo_meta holds one record per fragment in strictly ascending order of the
\* starting atom index, then the sentinel 0, which is the last element and
\* occurs nowhere else.
C1_IndatSortedWithSentinel ==
    FmoMetaRan =>
        /\ Len(indat) = Len(fragments) + 1
        /\ indat[Len(indat)] = Sentinel
        /\ \A i \in 1..(Len(indat) - 1) : indat[i] # Sentinel
        /\ \A i \in 1..(Len(indat) - 2) :
              IntFields(indat[i])[2] < IntFields(indat[i + 1])[2]

C1_Witness ==
    /\ FmoMetaRan
    /\ Len(fragments) >= 3
    /\ \E i, j \in DOMAIN fragments :
          i < j /\ fragments[i].atoms[1] > fragments[j].atoms[1]

ParentAtoms == Range(Concat([i \in DOMAIN fragments |-> fragments[i].atoms]))

\* the atom indices first..last of the INDAT record "0,first,-last,"
RecordRange(rec) == LET f == IntFields(rec) IN f[2] .. -(f[3])

RECURSIVE DropUntil(_, _)
DropUntil(s, kw) ==
    IF s = << >> THEN << >>
    ELSE IF Head(s) = kw THEN Tail(s) ELSE DropUntil(Tail(s), kw)

RECURSIVE TakeUntil(_, _)
TakeUntil(s, kw) ==
    IF s = << >> \/ Head(s) = kw THEN << >>
    ELSE <<Head(s)>> \o TakeUntil(Tail(s), kw)

RECURSIVE Without(_, _)
Without(s, tok) ==
    IF s = << >> THEN << >>
    ELSE IF Head(s) = tok THEN Without(Tail(s), tok)
    ELSE <<Head(s)>> \o Without(Tail(s), tok)

\* the integers of the INDAT(1)= block, grouped in range records of three;
\* what is left over at the end is the sentinel
RECURSIVE Triples(_)
Triples(ints) ==
    IF Len(ints) < 3 THEN << >>
    ELSE <<SubSeq(ints, 1, 3)>> \o Triples(SubSeq(ints, 4, Len(ints)))

ParsedIndat(text) ==
    Triples(IntFields(Without(
        TakeUntil(DropUntil(text, Kw("INDAT(1)=")), Kw("ICHARG(1)=")), NL)))

ParsedIcharg(text) ==
    IntFields(TakeUntil(DropUntil(text, Kw("ICHARG(1)=")), NL))

\* C3 (as specified; the code departs from it): the rendered $FMO section of a job with N fragments
\* re-parses to N range records and N charges, the i-th charge being the
\* charge of the fragment whose range is the i-th record.
C3_RoundTrip ==
    FmoMetaRan =>
        /\ fmoPc = "done"
        /\ Len(ParsedIndat(fmoData)) = Len(fragments)
        /\ Len(ParsedIcharg(fmoData)) = Len(fragments)
        /\ \A i \in 1..Len(fragments) :
              \E f \in Range(fragments) :
                 /\ ParsedIndat(fmoData)[i] = <<0, f.atoms[1], -(f.atoms[Len(f.atoms)])>>
                 /\ ParsedIcharg(fmoData)[i] = f.charge

\* ------------------------------------------------------------------------
\* Sub-jobs of the fragments (create_inputs_for_fragments of both builders)
\* ------------------------------------------------------------------------
MaxFragAtoms == 3

VARIABLES
    builder,       \* "gamess" (GamessJob) or "psi" (PsiJob)
    fragSettings,  \* self.merged (or self.defaults): the settings object that
                   \* every sub-job is given; charge and mult are
                   \* input.contrl.icharg / mult (input.molecule.charge /
                   \* multiplicity for PSI4), rest stands for all other options
    parentConfig,  \* the parent's merged configuration when the call starts
    subJobs,       \* the sub-jobs built, in order of construction
    isComplex,     \* self.is_complex
    fragsPc        \* "init" or "done"

fragsVars == <<builder, fragSettings, parentConfig, subJobs, isComplex, fragsPc>>

\* a key that the settings do not hold
NoKey == 0

ParentMults == {NoKey, 1, 2}

\* frag_settings.input.contrl.icharg = data['charge'];
\* if data['multiplicity'] != 1: frag_settings.input.contrl.mult = ...
Override(settings, data) ==
    [settings EXCEPT !.charge = data.charge,
                     !.mult = IF data.multiplicity # 1 THEN data.multiplicity ELSE @]

\* name = f"{data['name']}_{count}"
FragDirName(data, count) == <<Kw(data.name), Kw("_")>> \o IntStr(count)

\* the sub-job passes its own frags_in_subdir on to the jobs it builds
FragsInSubdirInherited == TRUE

\* frags_in_subdir of a sub-job: GamessJob(using = ..., settings = ...) and
\* PsiJob(using = ..., settings = ..., run_dir = True) do not pass it, and
\* the parameter defaults to False
FragsInSubdir == FALSE

\* the loop over self.mol.fragments.items() of GamessJob: st is
\* [settings, count, jobs]
RECURSIVE GamessLoop(_, _, _)
GamessLoop(frags, i, st) ==
    IF i > Len(frags) THEN st
    ELSE LET data == frags[i]
             set  == Override(st.settings, data)
         IN  IF data.frag_type = "frag"
             THEN GamessLoop(frags, i + 1,
                    [settings |-> set,
                     count    |-> st.count + 1,
                     jobs     |-> Append(st.jobs,
                        [frag     |-> i,
                         cwd      |-> << <<Kw("frags")>>, FragDirName(data, st.count) >>,
                         fmo      |-> FALSE,
                         frags_in_subdir |-> FragsInSubdir,
                         settings |-> set])])
             ELSE GamessLoop(frags, i + 1,
                    [settings |-> set,
                     count    |-> st.count,
                     jobs     |-> Append(st.jobs,
                        [frag     |-> i,
                         cwd      |-> << <<Kw("ionic")>> >>,
                         fmo      |-> TRUE,
                         frags_in_subdir |-> FragsInSubdir,
                         settings |-> set])])

\* the loop of PsiJob: only the entries of frag_type 'frag' are built
RECURSIVE PsiLoop(_, _, _)
PsiLoop(frags, i, st) ==
    IF i > Len(frags) THEN st
    ELSE LET data == frags[i]
             set  == Override(st.settings, data)
         IN  IF data.frag_type = "frag"
             THEN PsiLoop(frags, i + 1,
                    [settings |-> set,
                     count    |-> st.count + 1,
                     jobs     |-> Append(st.jobs,
                        [frag     |-> i,
                         cwd      |-> << <<Kw("frags")>>, FragDirName(data, st.count) >>,
                         fmo      |-> FALSE,
                         frags_in_subdir |-> FragsInSubdir,
                         settings |-> set])])
             ELSE PsiLoop(frags, i + 1, st)

\* self.mol.ionic of PsiJob: the index of the ionic network among the units,
\* 0 when the molecule has none (hasattr(self.mol, 'ionic') is false)
MolIonic(frags) ==
    IF \E i \in DOMAIN frags : frags[i].frag_type = "ionic"
    THEN CHOOSE i \in DOMAIN frags : frags[i].frag_type = "ionic"
    ELSE 0

\* the block after the loop of PsiJob: the sub-job of self.mol.ionic
PsiIonic(frags, st) ==
    IF MolIonic(frags) = 0 THEN st
    ELSE LET data == frags[MolIonic(frags)]
             set  == Override(st.settings, data)
         IN  [settings |-> set,
              count    |-> st.count,
              jobs     |-> Append(st.jobs,
                 [frag     |-> MolIonic(frags),
                  cwd      |-> << <<Kw("ionic")>> >>,
                  fmo      |-> FALSE,
                  frags_in_subdir |-> FragsInSubdir,
                  settings |-> set])]

FragsInit ==
    /\ IsFragmentMap(fragments, MaxFragAtoms, {-1, 0}, Multiplicities)
    /\ builder \in {"gamess", "psi"}
    /\ \E m \in ParentMults :
          /\ builder = "psi" => m # NoKey
          /\ fragSettings = [charge |-> 0, mult |-> m, rest |-> "merged"]
    /\ parentConfig = fragSettings
    /\ subJobs = << >>
    /\ isComplex \in BOOLEAN
    /\ fragsPc = "init"

FragsIdle ==
    /\ builder = "gamess"
    /\ fragSettings = [charge |-> 0, mult |-> NoKey, rest |-> "merged"]
    /\ parentConfig = fragSettings
    /\ subJobs = << >>
    /\ isComplex = FALSE
    /\ fragsPc = "idle"

Gamess_create_inputs_for_fragments ==
    /\ fragsPc = "init"
    /\ builder = "gamess"
    /\ isComplex' = FALSE
    /\ LET st == GamessLoop(fragments, 1,
                    [settings |-> fragSettings, count |-> 0, jobs |-> << >>])
       IN  /\ fragSettings' = st.settings
           /\ subJobs' = st.jobs
    /\ fragsPc' = "done"
    /\ UNCHANGED <<builder, parentConfig, fragments>>

Psi_create_inputs_for_fragments ==
    /\ fragsPc = "init"
    /\ builder = "psi"
    /\ isComplex' = FALSE
    /\ LET st == PsiIonic(fragments, PsiLoop(fragments, 1,
                    [settings |-> fragSettings, count |-> 0, jobs |-> << >>]))
       IN  /\ fragSettings' = st.settings
           /\ subJobs' = st.jobs
    /\ fragsPc' = "done"
    /\ UNCHANGED <<builder, parentConfig, fragments>>

FragsNext ==
    \/ Gamess_create_inputs_for_fragments
    \/ Psi_create_inputs_for_fragments

\* the multiplicity a deck runs with: 1 when the key is not set
EffectiveMult(m) == IF m = NoKey THEN 1 ELSE m

\* C4 (as specified; the code departs from it): every sub-job is built with the charge and the
\* multiplicity of its own fragment, whatever the parent or an earlier
\* fragment had, and with the parent's merged configuration otherwise.
C4_SubJobOwnChargeAndMult ==
    fragsPc = "done" =>
        \A j \in Range(subJobs) :
            /\ j.settings.charge = fragments[j.frag].charge
            /\ EffectiveMult(j.settings.mult) = fragments[j.frag].multiplicity
            /\ j.settings.rest = parentConfig.rest

\* C18 (as specified; the code departs from it): the sub-job of each
\* frag-type fragment is placed in frags/<species><ordinal>/, the species
\* name immediately followed by the ordinal with no separator, and the
\* sub-job of the ionic network in ionic/.
C18_SubJobDirectories ==
    fragsPc = "done" =>
        \A j \in Range(subJobs) :
            IF fragments[j.frag].frag_type = "frag"
            THEN /\ Len(j.cwd) = 2
                 /\ j.cwd[1] = <<Kw("frags")>>
                 /\ \E k \in 0..Len(fragments) :
                       j.cwd[2] = <<Kw(fragments[j.frag].name)>> \o IntStr(k)
            ELSE j.cwd = << <<Kw("ionic")>> >>

MaxBuilds == 3

VARIABLES
    dirs,        \* the directories below the working directory (paths)
    files,       \* the files in and below the working directory
    builds       \* the jobs built in this working directory, in order, each
                 \* with the exception that ended its constructor ("none"
                 \* when it returned), the method that raised it and the
                 \* directories it left

placeVars == <<dirs, files, builds>>

BaseNames == {"opt", "spec"}

File(dir, name, ext) == [dir |-> dir, name |-> name, ext |-> ext]

\* the working directory itself
Cwd == << >>

Parent(path) == SubSeq(path, 1, Len(path) - 1)

\* os.mkdir(path) on the file system fs = [dirs, files, err]; a step after an
\* exception is not executed
Mkdir(fs, path) ==
    IF fs.err # "none" THEN fs
    ELSE IF path \in fs.dirs THEN [fs EXCEPT !.err = "FileExistsError"]
    ELSE IF Parent(path) # Cwd /\ Parent(path) \notin fs.dirs
         THEN [fs EXCEPT !.err = "FileNotFoundError"]
    ELSE [fs EXCEPT !.dirs = @ \cup {path}]

\* write_file(data, filetype): open(f"{base_name}.{filetype}", "w")
WriteFile(fs, base, ext) ==
    IF fs.err # "none" THEN fs
    ELSE [fs EXCEPT !.files = @ \cup {File(Cwd, base, ext)}]

\* system(f'mv {base}.inp {base}.job {target}/'): the shell moves the files
\* that exist into the directory when it exists, and never raises
Mv(fs, base, target) ==
    IF fs.err # "none" \/ target \notin fs.dirs THEN fs
    ELSE LET moved == {f \in fs.files :
                          f.dir = Cwd /\ f.name = base /\ f.ext \in {"inp", "job"}}
         IN  [fs EXCEPT !.files =
                 (@ \ moved) \cup {File(target, f.name, f.ext) : f \in moved}]

\* system('cp *.xyz complex/complex.xyz')
CpXyz(fs) ==
    IF fs.err # "none" \/ <<"complex">> \notin fs.dirs THEN fs
    ELSE IF \E f \in fs.files : f.dir = Cwd /\ f.ext = "xyz"
         THEN [fs EXCEPT !.files = @ \cup {File(<<"complex">>, "complex", "xyz")}]
    ELSE fs

\* place_files_in_dir, the same code in GamessJob and PsiJob
PlaceFilesInDir(fs, base, is_complex) ==
    IF is_complex
    THEN IF <<"complex", base>> \notin fs.dirs
         THEN Mv(CpXyz(Mkdir(Mkdir(fs, <<"complex">>), <<"complex", base>>)),
                 base, <<"complex", base>>)
         ELSE Mv(fs, base, <<"complex", base>>)
    ELSE IF <<base>> \notin fs.dirs
         THEN Mv(Mkdir(fs, <<base>>), base, <<base>>)
         ELSE Mv(fs, base, <<base>>)

\* PsiJob.make_run_dir
MakeRunDir(fs, base, made_run_dir) ==
    IF made_run_dir THEN fs ELSE Mkdir(fs, <<base>>)

\* GamessJob.__init__: create_inp, create_job, place_files_in_dir
GamessInit(fs, base, is_complex) ==
    PlaceFilesInDir(WriteFile(WriteFile(fs, base, "inp"), base, "job"),
                    base, is_complex)

\* PsiJob.__init__: create_inp, create_job, make_run_dir, place_files_in_dir
PsiInit(fs, base, is_complex, run_dir) ==
    PlaceFilesInDir(
        MakeRunDir(WriteFile(WriteFile(fs, base, "inp"), base, "job"),
                   base, run_dir),
        base, is_complex)

BuildRecord(cls, base, c, r, fsRunDir, fs) ==
    [builder |-> cls, base |-> base, is_complex |-> c, run_dir |-> r,
     outcome |-> fs.err, dirs |-> fs.dirs,
     raisedIn |-> IF fs.err = "none" THEN "none"
                  ELSE IF fsRunDir.err # "none" THEN "make_run_dir"
                  ELSE "place_files_in_dir"]

PlaceInit ==
    /\ dirs = {}
    /\ files = {File(Cwd, "mol", "xyz")}
    /\ builds = << >>

PlaceIdle ==
    /\ dirs = {}
    /\ files = {}
    /\ builds = << >>

\* j = GamessJob(using = 'mol.xyz', filename = base, is_complex = c)
GamessBuild ==
    /\ Len(builds) < MaxBuilds
    /\ \E base \in BaseNames, c \in BOOLEAN :
          LET fs0 == [dirs |-> dirs, files |-> files, err |-> "none"]
              fs  == GamessInit(fs0, base, c)
          IN  /\ dirs' = fs.dirs
              /\ files' = fs.files
              /\ builds' = Append(builds,
                    BuildRecord("gamess", base, c, FALSE, fs0, fs))

\* j = PsiJob(using = 'mol.xyz', filename = base, is_complex = c, run_dir = r)
PsiBuild ==
    /\ Len(builds) < MaxBuilds
    /\ \E base \in BaseNames, c \in BOOLEAN, r \in BOOLEAN :
          LET fs0 == [dirs |-> dirs, files |-> files, err |-> "none"]
              fs  == PsiInit(fs0, base, c, r)
          IN  /\ dirs' = fs.dirs
              /\ files' = fs.files
              /\ builds' = Append(builds,
                    BuildRecord("psi", base, c, r,
                                MakeRunDir(fs0, base, r), fs))

PlaceNext == GamessBuild \/ PsiBuild

InDir(base, dir) ==
    /\ File(dir, base, "inp") \in files
    /\ File(dir, base, "job") \in files

LastBuild == builds[Len(builds)]

\* C5 (as specified; the code departs from it): in a working directory where only jobs with is_complex
\* were built, every call of place_files_in_dir succeeds (also when complex/
\* exists already, from a job of another base name) and leaves complex/ and
\* complex/<base_name>/ with the job's .inp and .job files in the latter.
C5_ComplexPlacementSucceeds ==
    (/\ builds # << >>
     /\ \A i \in DOMAIN builds : builds[i].is_complex
     /\ LastBuild.raisedIn # "make_run_dir") =>
        /\ LastBuild.outcome = "none"
        /\ <<"complex">> \in dirs
        /\ <<"complex", LastBuild.base>> \in dirs
        /\ InDir(LastBuild.base, <<"complex", LastBuild.base>>)

SameJob(b1, b2) ==
    /\ b1.builder = b2.builder
    /\ b1.base = b2.base
    /\ b1.is_complex = b2.is_complex
    /\ b1.run_dir = b2.run_dir

\* C6 (as specified; the code departs from it): a non-complex build succeeds whether or not <base_name>/
\* exists, with both builders, and building the same job again leaves the
\* directory structure as it was after the first build.
C6_NonComplexPlacementIdempotent ==
    /\ (builds # << >> /\ ~LastBuild.is_complex) =>
           /\ LastBuild.outcome = "none"
           /\ <<LastBuild.base>> \in dirs
           /\ InDir(LastBuild.base, <<LastBuild.base>>)
    /\ \A i \in 1..(Len(builds) - 1) :
           (/\ ~builds[i].is_complex
            /\ builds[i].outcome = "none"
            /\ SameJob(builds[i], builds[i + 1]))
           => (builds[i + 1].outcome = "none" /\ builds[i + 1].dirs = builds[i].dirs)

\* ------------------------------------------------------------------------
\* The GAMESS input deck (GamessJob.create_inp)
\* ------------------------------------------------------------------------
MaxUserKeys == 2

VARIABLES
    input,        \* self.input: the option blocks in insertion order, each
                  \* [key, block, opts, text]: a Settings block has options
                  \* opts (in insertion order), a plain value has a text
    jobFmo,       \* self.fmo
    filename,     \* self.filename ([has |-> FALSE] for None)
    userScsopo,   \* settings.input.mp2.scsopo as the caller set it ("" if not)
    header,       \* self.header: the ordered blocks
    inp,          \* the text written to <base_name>.inp, block by block
    baseName,     \* self.base_name
    inpPc         \* "init", "done" or "raised"

inpVars == <<input, jobFmo, filename, userScsopo, header, inp, baseName, inpPc>>

\* str.upper() and str.lower() on the words that occur
Upper(w) ==
    CASE w = "system" -> "SYSTEM" [] w = "contrl" -> "CONTRL"
      [] w = "gddi" -> "GDDI"     [] w = "statpt" -> "STATPT"
      [] w = "scf" -> "SCF"       [] w = "basis" -> "BASIS"
      [] w = "fmo" -> "FMO"       [] w = "mp2" -> "MP2"
      [] w = "pcm" -> "PCM"       [] w = "elmom" -> "ELMOM"
      [] w = "force" -> "FORCE"
      [] w = "runtyp" -> "RUNTYP" [] w = "gbasis" -> "GBASIS"
      [] w = "scsopo" -> "SCSOPO" [] w = "ngroup" -> "NGROUP"
      [] w = "nstep" -> "NSTEP"   [] w = "optimize" -> "OPTIMIZE"
      [] w = "energy" -> "ENERGY" [] w = "hessian" -> "HESSIAN"
      [] w = "ccd" -> "CCD"       [] w = "cct" -> "CCT"
      [] w = "blah" -> "BLAH"
      [] OTHER -> w

Lower(w) ==
    CASE w = "CCT" -> "cct" [] w = "CCD" -> "ccd"
      [] w = "OPTIMIZE" -> "optimize" [] w = "ENERGY" -> "energy"
      [] w = "HESSIAN" -> "hessian"
      [] OTHER -> w

\* str(n) of a small count
CountStr(n) ==
    CASE n = 0 -> "0" [] n = 1 -> "1" [] n = 2 -> "2" [] n = 3 -> "3"
      [] n = 4 -> "4" [] n = 5 -> "5" [] OTHER -> "many"

Opt(el, val) == [el |-> el, val |-> val]

Block(key, opts) == [key |-> key, block |-> TRUE, opts |-> opts, text |-> << >>]

Plain(key, text) == [key |-> key, block |-> FALSE, opts |-> << >>, text |-> text]

Keys(settings) == {settings[i].key : i \in DOMAIN settings}

IndexOf(settings, key) == CHOOSE i \in DOMAIN settings : settings[i].key = key

\* settings.key.el, "" when it is not set
Get(settings, key, el) ==
    IF key \notin Keys(settings) THEN ""
    ELSE LET opts == settings[IndexOf(settings, key)].opts
         IN  IF \E i \in DOMAIN opts : opts[i].el = el
             THEN opts[CHOOSE i \in DOMAIN opts : opts[i].el = el].val
             ELSE ""

\* settings.key.el = val: a new key or a new option goes to the end
SetOpt(settings, key, el, val) ==
    IF key \notin Keys(settings)
    THEN Append(settings, Block(key, <<Opt(el, val)>>))
    ELSE LET k    == IndexOf(settings, key)
             opts == settings[k].opts
         IN  IF \E i \in DOMAIN opts : opts[i].el = el
             THEN [settings EXCEPT ![k].opts =
                     [i \in DOMAIN opts |->
                        IF opts[i].el = el THEN Opt(el, val) ELSE opts[i]]]
             ELSE [settings EXCEPT ![k].opts = Append(opts, Opt(el, val))]

\* settings.key = text
SetPlain(settings, key, text) ==
    IF key \notin Keys(settings)
    THEN Append(settings, Plain(key, text))
    ELSE [settings EXCEPT ![IndexOf(settings, key)] = Plain(key, text)]

\* parse_settings: one line per block of self.input, in its order; a line is
\* [section, opts, text] with section the word after the '$'
ParseSettings(settings) ==
    [i \in DOMAIN settings |->
        [section |-> Upper(settings[i].key),
         opts    |-> [j \in DOMAIN settings[i].opts |->
                        Opt(Upper(settings[i].opts[j].el),
                            Upper(settings[i].opts[j].val))],
         text    |-> settings[i].text]]

\* item = line.split()[0][1:]
Item(line) == line.section

Desired(fmo) ==
    IF fmo THEN <<"SYSTEM", "CONTRL", "GDDI", "STATPT", "SCF", "BASIS", "FMO", "MP2">>
    ELSE <<"SYSTEM", "CONTRL", "STATPT", "SCF", "BASIS", "MP2">>

RECURSIVE SelectItem(_, _)
SelectItem(lines, i) ==
    IF lines = << >> THEN << >>
    ELSE IF Item(Head(lines)) = i THEN <<Head(lines)>> \o SelectItem(Tail(lines), i)
    ELSE SelectItem(Tail(lines), i)

InInputOrder(desired, unordered) ==
    LET RECURSIVE Keep(_)
        Keep(ls) == IF ls = << >> THEN << >>
                    ELSE IF Item(Head(ls)) \in Range(desired)
                         THEN <<Head(ls)>> \o Keep(Tail(ls))
                         ELSE Keep(Tail(ls))
    IN  Keep(unordered)

\* for i in desired: for line in unordered_header: if item == i: append
RECURSIVE InDesiredOrder(_, _)
InDesiredOrder(desired, unordered) ==
    IF desired = << >> THEN << >>
    ELSE SelectItem(unordered, Head(desired))
            \o InDesiredOrder(Tail(desired), unordered)

\* header.append(x)
InsertAtEnd(h, k, x) == Append(h, x)

\* list.insert(-k, x)
InsertFromEnd(h, k, x) ==
    LET p == (IF Len(h) - k < 0 THEN 0 ELSE Len(h) - k) + 1
    IN  SubSeq(h, 1, p - 1) \o <<x>> \o SubSeq(h, p, Len(h))

\* the loop without the test for 'FMO' and 'GDDI'
RECURSIVE AddAdditionalUnfiltered(_, _, _)
AddAdditionalUnfiltered(h, unordered, fmo) ==
    IF unordered = << >> THEN h
    ELSE LET line == Head(unordered)
         IN  IF Item(line) \notin Range(Desired(fmo))
             THEN AddAdditionalUnfiltered(
                      InsertFromEnd(h, IF fmo THEN 5 ELSE 4, line),
                      Tail(unordered), fmo)
             ELSE AddAdditionalUnfiltered(h, Tail(unordered), fmo)

\* the loop that adds the blocks that are not in the desired list
RECURSIVE AddAdditional(_, _, _)
AddAdditional(h, unordered, fmo) ==
    IF unordered = << >> THEN h
    ELSE LET line == Head(unordered)
         IN  IF /\ Item(line) \notin Range(Desired(fmo))
                /\ Item(line) # "FMO"
                /\ Item(line) # "GDDI"
             THEN AddAdditional(InsertFromEnd(h, IF fmo THEN 5 ELSE 4, line),
                                Tail(unordered), fmo)
             ELSE AddAdditional(h, Tail(unordered), fmo)

\* for index, line in enumerate(self.header): if ... '$STATPT': del header[index]
RECURSIVE DelStatpt(_, _)
DelStatpt(h, index) ==
    IF index > Len(h) THEN h
    ELSE IF Item(h[index]) = "STATPT"
         THEN DelStatpt(SubSeq(h, 1, index - 1) \o SubSeq(h, index + 1, Len(h)),
                        index + 1)
    ELSE DelStatpt(h, index + 1)

KeepStatpt(h, rt) == h

DropStatpt(h, rt) == IF rt # "optimize" THEN DelStatpt(h, 1) ELSE h

\* order_header
OrderHeader(unordered, fmo, rt) ==
    DropStatpt(
        AddAdditional(InDesiredOrder(Desired(fmo), unordered), unordered, fmo),
        rt)

\* make_automatic_changes
MakeAutomaticChanges(settings) ==
    IF Lower(Get(settings, "basis", "gbasis")) = "cct"
    THEN SetOpt(settings, "mp2", "scsopo", "1.64")
    ELSE settings

\* determine_fragments, once fmo_formatting has returned fmo_data
AddFmoInfo(settings, fmo_data, nfrags) ==
    SetOpt(SetPlain(settings, "fmo", fmo_data), "gddi", "ngroup", CountStr(nfrags))

SectionLine(name) == [section |-> name, opts |-> << >>, text |-> << >>]

\* make_inp: the header, then $DATA (and $FMOXYZ in an FMO deck)
MakeInp(h, fmo) ==
    h \o <<SectionLine("DATA")>> \o (IF fmo THEN <<SectionLine("FMOXYZ")>> ELSE << >>)

\* file_basename
FileBasename(fname, rt) ==
    IF fname.has THEN fname.v
    ELSE CASE rt = "optimize" -> "opt" [] rt = "energy" -> "spec"
           [] rt = "hessian" -> "hess" [] OTHER -> "file"

\* the template gamess.json, as the class docstring and the comment of
\* make_automatic_changes show it
DefaultKeys == {"system", "contrl", "statpt", "scf", "basis", "mp2"}

DefaultBlock(key) ==
    CASE key = "contrl" -> Block(key, <<Opt("runtyp", "optimize")>>)
      [] key = "statpt" -> Block(key, <<Opt("nstep", "500")>>)
      [] key = "basis"  -> Block(key, <<Opt("gbasis", "ccd")>>)
      [] key = "mp2"    -> Block(key, <<Opt("scsopo", "1.752")>>)
      [] OTHER          -> Block(key, << >>)

DocOrder == <<"system", "contrl", "statpt", "scf", "basis", "mp2">>

Template(order) == [i \in DOMAIN order |-> DefaultBlock(order[i])]

\* blocks a caller adds to the settings: fmo and gddi (as a fragment sub-job
\* gets them from the settings of an FMO parent) and two further groups
UserKeys == {"fmo", "gddi", "pcm", "elmom"}

UserBlock(key) ==
    CASE key = "fmo"  -> Plain(key, <<Kw("NFRAG="), Num(2)>>)
      [] key = "gddi" -> Block(key, <<Opt("ngroup", "2")>>)
      [] OTHER        -> Plain(key, <<Kw("BLAH")>>)

\* defaults.merge(settings): the caller's values overlay the template, new
\* blocks go to the end
RECURSIVE Merge(_, _)
Merge(defaults, user) ==
    IF user = << >> THEN defaults
    ELSE LET u == Head(user)
         IN  Merge(IF ~u.block THEN SetPlain(defaults, u.key, u.text)
                   ELSE IF u.opts = << >> THEN
                        (IF u.key \in Keys(defaults) THEN defaults
                         ELSE Append(defaults, u))
                   ELSE SetOpt(defaults, u.key, u.opts[1].el, u.opts[1].val),
                   Tail(user))

UserOrders ==
    UNION { {o \in [1..k -> UserKeys] : Injective(o)} : k \in 0..MaxUserKeys }

NoFilename == [has |-> FALSE, v |-> ""]

\* the molecule of the decks: two units, metadata in place
DeckFragments ==
    << [name |-> "choline", atoms |-> <<1, 2>>, charge |-> 1,
        multiplicity |-> 1, frag_type |-> "frag"],
       [name |-> "acetate", atoms |-> <<3>>, charge |-> -1,
        multiplicity |-> 1, frag_type |-> "frag"] >>

InpInitOrders ==
    /\ \E order \in {o \in [1..6 -> DefaultKeys] : Injective(o)},
          rt \in {"optimize", "energy"}, uo \in UserOrders :
          /\ input = Merge(Template(order),
                           <<Block("contrl", <<Opt("runtyp", rt)>>)>>
                              \o [i \in DOMAIN uo |-> UserBlock(uo[i])])
          /\ runtyp = rt
    /\ jobFmo \in BOOLEAN
    /\ filename = NoFilename
    /\ userScsopo = ""

InpInitValues ==
    /\ \E rt \in RunTypes, gb \in {"ccd", "cct", "CCT"}, so \in {"", "1.2", "1.64"} :
          /\ input = Merge(Template(DocOrder),
                           <<Block("contrl", <<Opt("runtyp", rt)>>),
                             Block("basis", <<Opt("gbasis", gb)>>)>>
                              \o (IF so = "" THEN << >>
                                  ELSE <<Block("mp2", <<Opt("scsopo", so)>>)>>))
          /\ runtyp = rt
          /\ userScsopo = so
    /\ jobFmo \in BOOLEAN
    /\ filename \in {NoFilename, [has |-> TRUE, v |-> "benzene"]}

InpInit ==
    /\ fragments = DeckFragments
    /\ molIndat = [has |-> TRUE, v |-> MetaIndat(DeckFragments)]
    /\ molCharg = [has |-> TRUE, v |-> MetaCharg(DeckFragments)]
    /\ indat = << >>
    /\ charg = << >>
    /\ fmoData = << >>
    /\ fmoPc = "idle"
    /\ header = << >>
    /\ inp = << >>
    /\ baseName = ""
    /\ inpPc = "init"

InpIdle ==
    /\ input = << >>
    /\ jobFmo = FALSE
    /\ filename = NoFilename
    /\ userScsopo = ""
    /\ header = << >>
    /\ inp = << >>
    /\ baseName = ""
    /\ inpPc = "idle"

\* create_inp of a job that is not an FMO job
create_inp ==
    /\ inpPc = "init"
    /\ ~jobFmo
    /\ input' = MakeAutomaticChanges(input)
    /\ \E unordered_header \in {ParseSettings(input')} :
          header' = OrderHeader(unordered_header, jobFmo,
                                Get(input', "contrl", "runtyp"))
    /\ inp' = MakeInp(header', jobFmo)
    /\ baseName' = FileBasename(filename, Get(input', "contrl", "runtyp"))
    /\ inpPc' = "done"
    /\ UNCHANGED <<jobFmo, filename, userScsopo, fmoVars>>

\* create_inp of an FMO job: determine_fragments calls fmo_formatting, which
\* raises when self.mol has no indat or charg attribute
create_inp_fmo ==
    /\ inpPc = "init"
    /\ jobFmo
    /\ indat' = MetaIndat(fragments)
    /\ charg' = MetaCharg(fragments)
    /\ IF molIndat.has /\ molCharg.has /\ molIndat.v # << >>
       THEN /\ fmoData' = FmoString(Len(fragments), runtyp, molIndat.v,
                                    indat', molCharg.v)
            /\ input' = MakeAutomaticChanges(
                            AddFmoInfo(input, fmoData', Len(fragments)))
            /\ \E unordered_header \in {ParseSettings(input')} :
                  header' = OrderHeader(unordered_header, jobFmo,
                                        Get(input', "contrl", "runtyp"))
            /\ inp' = MakeInp(header', jobFmo)
            /\ baseName' = FileBasename(filename, Get(input', "contrl", "runtyp"))
            /\ inpPc' = "done"
       ELSE /\ inpPc' = "raised"
            /\ UNCHANGED <<fmoData, input, header, inp, baseName>>
    /\ UNCHANGED <<jobFmo, filename, userScsopo, fragments, runtyp, molIndat,
                   molCharg, fmoPc>>

InpNext == create_inp \/ create_inp_fmo

\* ------------------------------------------------------------------------
\* Properties of the deck (checked under SpecInp)
\* ------------------------------------------------------------------------
Sections(lines) == [i \in DOMAIN lines |-> lines[i].section]

PosIn(seq, x) == CHOOSE i \in DOMAIN seq : seq[i] = x

\* C7: the canonical sections present in the rendered deck are in the
\* relative order of the canonical list of the mode (FMO or not), for every
\* set and insertion order of the option blocks, extra blocks included.
C7_CanonicalOrder ==
    inpPc = "done" =>
        LET secs  == Sections(inp)
            canon == Desired(jobFmo)
        IN  \A i, j \in DOMAIN secs :
               (i < j /\ secs[i] \in Range(canon) /\ secs[j] \in Range(canon))
               => PosIn(canon, secs[i]) < PosIn(canon, secs[j])

C7_Witness ==
    /\ inpPc = "done"
    /\ jobFmo
    /\ \E l \in Range(inp) : l.section \in {"PCM", "ELMOM"}
    /\ \E i, j \in DOMAIN input :
          /\ i < j
          /\ input[i].key = "mp2"
          /\ input[j].key = "system"

DeckScsopo ==
    IF \E l \in Range(inp) : l.section = "MP2" /\ \E o \in Range(l.opts) : o.el = "SCSOPO"
    THEN LET l == CHOOSE l \in Range(inp) : l.section = "MP2"
         IN  (CHOOSE o \in Range(l.opts) : o.el = "SCSOPO").val
    ELSE ""

\* C9 (as specified; the code departs from it): when the caller's settings set mp2.scsopo, the deck keeps
\* the caller's value, also with basis.gbasis 'cct'; 1.64 is applied only
\* when the caller did not set scsopo.
C9_UserScsopoKept ==
    (inpPc = "done" /\ userScsopo # "") => DeckScsopo = Upper(userScsopo)

\* the sections of the deck that make_inp adds after the header
Terminal == {"DATA", "FMOXYZ"}

\* the sections of lines that are not canonical in the mode of the job
ExtraSections(lines) ==
    SelectSeq(Sections(lines),
              LAMBDA s : s \notin Range(Desired(jobFmo)) \cup Terminal)

\* the option blocks of self.input whose key is not canonical, in the order
\* of the options
ExtraOptions == ExtraSections(ParseSettings(input))

\* C23 (as specified; the code departs from it): every option block whose
\* key is not in the canonical list of the mode is in the deck after all
\* canonical sections, immediately before the terminal $DATA section, and
\* several such blocks keep their relative order.
C23_ExtrasBeforeData ==
    inpPc = "done" =>
        LET secs == Sections(inp)
        IN  /\ ExtraSections(inp) = ExtraOptions
            /\ \A i, j \in DOMAIN secs :
                  (secs[i] \in Range(Desired(jobFmo)) /\ secs[j] \in Range(ExtraOptions))
                  => i < j
            /\ \A j \in DOMAIN secs :
                  secs[j] \in Range(ExtraOptions) =>
                     \E d \in DOMAIN secs :
                        /\ secs[d] = "DATA"
                        /\ \A m \in (j + 1)..(d - 1) : secs[m] \in Range(ExtraOptions)

\* the number of canonical sections the extra blocks are put in front of
TailSections(fmo) == IF fmo THEN 5 ELSE 4

\* C23 (amended): in a deck whose header has at least four (five in FMO
\* mode) canonical sections when the extra blocks are added, every option
\* block whose key is not canonical and is neither fmo nor gddi is in the
\* deck once, in front of the last four (five) canonical sections of the
\* ordered header (STATPT, SCF, BASIS, [FMO,] MP2 with the default blocks)
\* and behind the canonical sections before those; several such blocks keep
\* their relative order.
C23_ExtrasBeforeTailSections ==
    inpPc = "done" =>
        LET secs   == Sections(inp)
            canon  == InDesiredOrder(Desired(jobFmo), ParseSettings(input))
            cut    == Len(canon) - TailSections(jobFmo)
            before == {canon[i].section : i \in 1..cut}
            after  == {canon[i].section : i \in (cut + 1)..Len(canon)}
            extras == SelectSeq(ExtraOptions, LAMBDA s : s \notin {"FMO", "GDDI"})
        IN  cut >= 0 =>
              /\ SelectSeq(secs, LAMBDA s : s \in Range(extras)) = extras
              /\ \A i, j \in DOMAIN secs :
                    (secs[i] \in before /\ secs[j] \in Range(extras)) => i < j
              /\ \A i, j \in DOMAIN secs :
                    (secs[i] \in Range(extras) /\ secs[j] \in after) => i < j

C23_Witness ==
    /\ inpPc = "done"
    /\ ExtraOptions = <<"ELMOM", "PCM">>
    /\ \E i, j, k \in DOMAIN inp :
          /\ i < j /\ j < k
          /\ inp[i].section = "ELMOM"
          /\ inp[j].section = "PCM"
          /\ inp[k].section = "SCF"

\* C25: a deck built in non-FMO mode has no $FMO and no $GDDI section, also
\* when the options of the job carry fmo and gddi blocks, as those of a
\* fragment sub-job that reuses the settings of an FMO parent do.
C25_NoFmoSectionsOutsideFmo ==
    (inpPc = "done" /\ ~jobFmo) =>
        /\ "FMO" \notin Range(Sections(inp))
        /\ "GDDI" \notin Range(Sections(inp))

C25_Witness ==
    /\ inpPc = "done"
    /\ ~jobFmo
    /\ {"fmo", "gddi"} \subseteq Keys(input)
    /\ Len(inp) >= 7

\* ------------------------------------------------------------------------
\* Reading a GAMESS log (GamessResults)
\* ------------------------------------------------------------------------
MaxEnergyLines == 3

VARIABLES
    log,         \* the lines of the log file (self.read()), each
                 \* [marks, val, word]: the marker texts the line contains,
                 \* the number that is its last field, and the basis code of an
                 \* echoed $BASIS card
    dataResult,  \* what get_data returned: [basis, HF, MP2]
    dataPc       \* "init", "done" or "raised"

logVars == <<log, dataResult, dataPc>>

\* energies, in tenths of a Hartree
Energies == {-1000, -1005}

LogLine(marks, val, word) == [marks |-> marks, val |-> val, word |-> word]

EnergyLines ==
    { LogLine(m, v, "") :
        m \in { {"TOTAL ENERGY ="}, {"Euncorr HF"}, {"E corr MP2"},
                {"E corr SCS", "SCS"} },
        v \in Energies }

FmoCard    == LogLine({"FMO"}, 0, "")
MplevlCard == LogLine({"MPLEVL"}, 0, "")
ScsCard    == LogLine({"SCS"}, 0, "")
BasisCard  == LogLine({"INPUT CARD> $BASIS"}, 0, "CCT")
RunTitle   == LogLine({"RUN TITLE"}, 0, "")

\* '' for an energy that was not found, else float(line.split()[-1])
Empty == [has |-> FALSE, v |-> 0]

Float(line) == [has |-> TRUE, v |-> line.val]

\* calc_type: the scan stops at the first line that has 'RUN TITLE' and none
\* of the three other markers
RECURSIVE CalcTypeScan(_, _)
CalcTypeScan(lines, flags) ==
    IF lines = << >> THEN flags
    ELSE LET line == Head(lines)
         IN  IF "FMO" \in line.marks
                THEN CalcTypeScan(Tail(lines), [flags EXCEPT !.fmo = TRUE])
             ELSE IF "MPLEVL" \in line.marks
                THEN CalcTypeScan(Tail(lines), [flags EXCEPT !.mp2 = TRUE])
             ELSE IF "SCS" \in line.marks
                THEN CalcTypeScan(Tail(lines), [flags EXCEPT !.scs = TRUE])
             ELSE IF "RUN TITLE" \in line.marks THEN flags
             ELSE CalcTypeScan(Tail(lines), flags)

CalcType(lines) ==
    CalcTypeScan(lines, [fmo |-> FALSE, mp2 |-> FALSE, scs |-> FALSE])

\* for line in self.read(): if marker in line: value = float(line.split()[-1])
RECURSIVE FirstEnergy(_, _, _)
FirstEnergy(lines, marker, value) ==
    IF lines = << >> THEN value
    ELSE FirstEnergy(Tail(lines), marker,
            IF marker \in Head(lines).marks /\ ~value.has
            THEN Float(Head(lines)) ELSE value)

RECURSIVE ScanEnergy(_, _, _)
ScanEnergy(lines, marker, value) ==
    IF lines = << >> THEN value
    ELSE ScanEnergy(Tail(lines), marker,
            IF marker \in Head(lines).marks THEN Float(Head(lines)) ELSE value)

\* basis = line.split()[-2].split('=')[1] of the last $BASIS card
RECURSIVE ScanBasis(_, _)
ScanBasis(lines, basis) ==
    IF lines = << >> THEN basis
    ELSE ScanBasis(Tail(lines),
            IF "INPUT CARD> $BASIS" \in Head(lines).marks
            THEN Head(lines).word ELSE basis)

ChangeBasis(basis) ==
    CASE basis = "CCD" -> "cc-pVDZ"   [] basis = "CCT" -> "cc-pVTZ"
      [] basis = "CCQ" -> "cc-pVQZ"   [] basis = "aCCD" -> "aug-cc-pVDZ"
      [] basis = "aCCT" -> "aug-cc-pVTZ" [] basis = "aCCQ" -> "aug-cc-pVQZ"
      [] OTHER -> basis

\* mp2_data(mp2_type)
Mp2Data(lines, corr) ==
    [basis |-> ScanBasis(lines, ""),
     HF    |-> ScanEnergy(lines, "Euncorr HF", Empty),
     MP2   |-> ScanEnergy(lines, corr, Empty)]

\* get_data; no branch assigns basis, HF and MP2 for an FMO log without
\* MPLEVL and SCS, and the function raises UnboundLocalError
GetData(lines) ==
    LET t == CalcType(lines)
        d == IF t.fmo /\ t.scs THEN Mp2Data(lines, "E corr SCS")
             ELSE IF t.fmo /\ t.mp2 /\ ~t.scs THEN Mp2Data(lines, "E corr MP2")
             ELSE LET val == ScanEnergy(lines, "TOTAL ENERGY =", Empty)
                  IN  [basis |-> ScanBasis(lines, ""),
                       HF    |-> IF t.scs \/ t.mp2 THEN Empty ELSE val,
                       MP2   |-> IF t.scs \/ t.mp2 THEN val ELSE Empty]
    IN  IF t.fmo /\ ~t.scs /\ ~t.mp2
        THEN [raised |-> TRUE, basis |-> "", HF |-> Empty, MP2 |-> Empty]
        ELSE [raised |-> FALSE, basis |-> ChangeBasis(d.basis),
              HF |-> d.HF, MP2 |-> d.MP2]

\* the logs read: the echoed input cards, the run title, then up to
\* MaxEnergyLines lines that report energies
LogHeaders ==
    { SelectSeq(<<FmoCard, MplevlCard, ScsCard, BasisCard>>,
                LAMBDA c : c \in cards) \o title :
        cards \in SUBSET {FmoCard, MplevlCard, ScsCard, BasisCard},
        title \in {<< >>, <<RunTitle>>} }

LogInit ==
    /\ \E h \in LogHeaders, n \in 0..MaxEnergyLines :
          \E body \in [1..n -> EnergyLines] : log = h \o body
    /\ dataResult = [raised |-> FALSE, basis |-> "", HF |-> Empty, MP2 |-> Empty]
    /\ dataPc = "init"

LogIdle ==
    /\ log = << >>
    /\ dataResult = [raised |-> FALSE, basis |-> "", HF |-> Empty, MP2 |-> Empty]
    /\ dataPc = "idle"

get_data ==
    /\ dataPc = "init"
    /\ dataResult' = GetData(log)
    /\ dataPc' = IF dataResult'.raised THEN "raised" ELSE "done"
    /\ UNCHANGED log

LogNext == get_data

\* the value of the last line of the log that has the marker
LastOccurrence(marker) ==
    IF \E i \in DOMAIN log : marker \in log[i].marks
    THEN LET i == CHOOSE i \in DOMAIN log :
                     /\ marker \in log[i].marks
                     /\ \A j \in DOMAIN log : marker \in log[j].marks => j <= i
         IN  [has |-> TRUE, v |-> log[i].val]
    ELSE Empty

\* C10: each energy that get_data returns is the value of the last line of
\* the log that has its marker ('TOTAL ENERGY =' in a log without FMO,
\* 'Euncorr HF' and 'E corr SCS' / 'E corr MP2' in an FMO log), never that of
\* an earlier line.
C10_LastOccurrence ==
    dataPc = "done" =>
        LET t == CalcType(log)
        IN  /\ ~t.fmo =>
                 /\ (t.scs \/ t.mp2) => dataResult.MP2 = LastOccurrence("TOTAL ENERGY =")
                 /\ ~(t.scs \/ t.mp2) => dataResult.HF = LastOccurrence("TOTAL ENERGY =")
            /\ t.fmo =>
                 /\ dataResult.HF = LastOccurrence("Euncorr HF")
                 /\ t.scs => dataResult.MP2 = LastOccurrence("E corr SCS")
                 /\ ~t.scs => dataResult.MP2 = LastOccurrence("E corr MP2")

C10_Witness ==
    /\ dataPc = "done"
    /\ \E i, j \in DOMAIN log :
          /\ i < j
          /\ log[i] = LogLine({"TOTAL ENERGY ="}, -1000, "")
          /\ log[j] = LogLine({"TOTAL ENERGY ="}, -1005, "")
          /\ \A k \in DOMAIN log : k > j => "TOTAL ENERGY =" \notin log[k].marks
    /\ dataResult.HF = [has |-> TRUE, v |-> -1005]

\* C21 (as specified; the code departs from it): get_data returns a record
\* (file, path, basis, HF, MP2) whatever flags calc_type found and whatever
\* energy markers the log lacks, the missing energies left empty; it never
\* raises, also not for an FMO log with neither an MPLEVL nor an SCS line.
C21_GetDataNeverRaises ==
    dataPc \in {"done", "raised"} =>
        /\ dataPc = "done"
        /\ ~dataResult.raised
        /\ LET t == CalcType(log)
           IN  /\ (~t.fmo /\ LastOccurrence("TOTAL ENERGY =") = Empty) =>
                      dataResult.HF = Empty /\ dataResult.MP2 = Empty
               /\ (t.fmo /\ LastOccurrence("Euncorr HF") = Empty) =>
                      dataResult.HF = Empty

\* ------------------------------------------------------------------------
\* Geometry of a log and the rerun deck (GamessResults.get_equil_coords)
\* ------------------------------------------------------------------------
MaxLogLines == 5

VARIABLES
    interned,   \* whether `line is '\n'` is true of a line that equals '\n'
                \* (object identity of equal strings is left to the interpreter)
    listdir,    \* os.listdir('.'): the names in the working directory
    disk,       \* the files under self.abspath: path |-> lines
    folders,    \* the directories under self.abspath
    equil,      \* the local list equil
    rerun,      \* the local list rerun
    printed,    \* what was printed
    coordsPc    \* "init", "done" or "raised"

rerunVars == <<interned, listdir, disk, folders, equil, rerun, printed, coordsPc>>

\* a line that matches regex: an atom of the geometry, val its number
CoordLine(atom) == LogLine({"COORD", "\n"}, atom, "")

EquilMarker == LogLine({"EQUILIBRIUM GEOMETRY LOCATED", "\n"}, 0, "")

LastPointMarker == LogLine({"ALWAYS THE LAST POINT COMPUTED", "\n"}, 0, "")

\* the line '\n'
BlankLine == LogLine({"\n"}, 0, "")

TextLine(word) == LogLine({"\n"}, 0, word)

Atoms == {1, 2}

\* re.search(regex, line)
Matches(line) == "COORD" \in line.marks

\* line[:-1] if line.endswith('\n') else line
Chomp(line) == [line EXCEPT !.marks = @ \ {"\n"}]

\* line + '\n'
WithNewline(line) == [line EXCEPT !.marks = @ \cup {"\n"}]

\* the loop over self.read(); st holds found, find, equil and rerun
RECURSIVE CollectCoords(_, _, _)
CollectCoords(lines, st, isNewline) ==
    IF lines = << >> THEN st
    ELSE LET line == Head(lines)
             s1 == [st EXCEPT
                      !.found = @ \/ "EQUILIBRIUM GEOMETRY LOCATED" \in line.marks,
                      !.find  = @ \/ "ALWAYS THE LAST POINT COMPUTED" \in line.marks]
             s2 == [s1 EXCEPT
                      !.equil = IF s1.found /\ Matches(line)
                                THEN Append(@, Chomp(line)) ELSE @,
                      !.rerun = IF s1.find /\ Matches(line)
                                THEN Append(@, Chomp(line)) ELSE @]
             s3 == IF line = BlankLine /\ isNewline
                   THEN [s2 EXCEPT !.find = FALSE, !.found = FALSE]
                   ELSE s2
         IN  CollectCoords(Tail(lines), s3, isNewline)

Collected(lines, isNewline) ==
    CollectCoords(lines,
        [found |-> FALSE, find |-> FALSE, equil |-> << >>, rerun |-> << >>],
        isNewline)

\* self.log, and the names derived from it: log[:-3] + 'inp', log[:-3] + 'job'
LogName == "opt.log"
InpName == "opt.inp"
JobName == "opt.job"

\* open(path, 'w') and write
Put(d, path, text) ==
    [p \in DOMAIN d \cup {path} |-> IF p = path THEN text ELSE d[p]]

\* write_xyz(coords, path): the number of atoms, a comment line, the atoms
XyzText(coords) ==
    <<TextLine("natoms"), TextLine("comment")>>
        \o [i \in DOMAIN coords |-> WithNewline(coords[i])]

\* job.replace(inp, 'rerun.inp').replace(self.log, 'rerun.' + ext)
RECURSIVE Replace(_, _, _)
Replace(text, old, new) ==
    IF text = << >> THEN << >>
    ELSE <<IF Head(text).word = old THEN [Head(text) EXCEPT !.word = new]
           ELSE Head(text)>> \o Replace(Tail(text), old, new)

NewJob(job) == Replace(Replace(job, InpName, "rerun.inp"), LogName, "rerun.log")

\* the lines of the original input before the first that matches regex
RECURSIVE UntilCoords(_)
UntilCoords(lines) ==
    IF lines = << >> THEN << >>
    ELSE IF Matches(Head(lines)) THEN << >>
    ELSE <<Head(lines)>> \o UntilCoords(Tail(lines))

\* ' $END', written without a newline
DeckEnd == LogLine({}, 0, " $END")

RerunInp(orig, coords) ==
    UntilCoords(orig) \o [i \in DOMAIN coords |-> WithNewline(coords[i])]
        \o <<DeckEnd>>

NoIterations == "No iterations were cycled through!"
EquilFound   == "Equilibrium geometry found"
NeedsResubmitting == "Needs resubmitting. Coords stored in rerun/rerun.xyz"

\* the first branch is taken only when no last-point coordinates were found
EquilWithoutRerun(eq, rr) == Len(eq) > 0 /\ Len(rr) = 0

\* len(equil) > 0
EquilLocated(eq, rr) == Len(eq) > 0

AnyBranchReruns(eq, rr) == Len(eq) = 0

\* len(rerun) > 0 and len(equil) == 0
NeedsRerun(eq, rr) == Len(rr) > 0 /\ Len(eq) = 0

\* the branch that writes the rerun directory; open() of a file that is not
\* there raises FileNotFoundError and what was written before stays
RerunFiles(d, f, names, rr) ==
    LET f1 == f \cup {"rerun"}
        d1 == Put(d, "rerun/rerun.xyz", XyzText(rr))
        listed == JobName \in names
        d2 == IF listed /\ JobName \in DOMAIN d
              THEN Put(d1, "rerun/rerun.job", NewJob(d[JobName]))
              ELSE d1
    IN  IF listed /\ JobName \notin DOMAIN d
        THEN [disk |-> d1, folders |-> f1, raised |-> TRUE]
        ELSE IF InpName \notin DOMAIN d
        THEN [disk |-> d2, folders |-> f1, raised |-> TRUE]
        ELSE [disk |-> Put(d2, "rerun/rerun.inp", RerunInp(d[InpName], rr)),
              folders |-> f1, raised |-> FALSE]

get_equil_coords ==
    /\ coordsPc = "init"
    /\ LET st == Collected(log, interned)
       IN  /\ equil' = st.equil
           /\ rerun' = st.rerun
           /\ IF EquilLocated(st.equil, st.rerun)
              THEN /\ printed' = <<EquilFound>>
                   /\ disk' = Put(disk, "equil.xyz", XyzText(st.equil))
                   /\ folders' = folders
                   /\ coordsPc' = "done"
              ELSE IF NeedsRerun(st.equil, st.rerun)
              THEN LET r == RerunFiles(disk, folders, listdir, st.rerun)
                   IN  /\ printed' = <<NeedsResubmitting>>
                       /\ disk' = r.disk
                       /\ folders' = r.folders
                       /\ coordsPc' = IF r.raised THEN "raised" ELSE "done"
              ELSE /\ printed' = <<NoIterations>>
                   /\ UNCHANGED <<disk, folders>>
                   /\ coordsPc' = "done"
    /\ UNCHANGED <<log, interned, listdir>>

\* the original input deck beside the log
OrigInp ==
    <<TextLine(" $CONTRL RUNTYP=OPTIMIZE $END"), TextLine(" $DATA"),
      CoordLine(1), CoordLine(2), TextLine(" $END")>>

\* an input deck none of whose lines matches regex
OrigInpNoCoords == <<TextLine(" $CONTRL RUNTYP=OPTIMIZE $END"), TextLine(" $DATA")>>

OrigJob == <<TextLine("rungms"), TextLine(InpName), TextLine(LogName)>>

GeometryLines ==
    {EquilMarker, LastPointMarker, BlankLine, TextLine("text")}
        \cup {CoordLine(a) : a \in Atoms}

\* the last line of a file may lack its newline
Logs(alphabet, maxLen) ==
    UNION { {l \in [1..n -> alphabet] : TRUE}
            \cup {[i \in 1..n |-> IF i = n THEN Chomp(l[i]) ELSE l[i]] :
                    l \in {m \in [1..n -> alphabet] : n > 0 /\ m[n] # BlankLine}} :
            n \in 0..maxLen }

\* a log whose optimisation did not converge
UnconvergedLog ==
    <<TextLine("text"), LastPointMarker, CoordLine(1), CoordLine(2), BlankLine>>

Disks ==
    { [p \in names |-> CASE p = InpName -> inpText [] p = JobName -> OrigJob
                         [] OTHER -> XyzText(<<CoordLine(1)>>)] :
        names \in SUBSET {InpName, JobName, "rerun/rerun.xyz"},
        inpText \in {OrigInp, OrigInpNoCoords} }

\* every log in the directory of the canonical run, and the canonical
\* unconverged log in every directory
RerunInit ==
    /\ \/ /\ log \in Logs(GeometryLines, MaxLogLines)
          /\ disk = [p \in {InpName, JobName} |->
                        IF p = InpName THEN OrigInp ELSE OrigJob]
          /\ listdir = {LogName, InpName, JobName}
          /\ folders = {}
       \/ /\ log = UnconvergedLog
          /\ disk \in Disks
          /\ listdir \in SUBSET {JobName}
          /\ folders = IF "rerun/rerun.xyz" \in DOMAIN disk THEN {"rerun"} ELSE {}
    /\ interned \in BOOLEAN
    /\ equil = << >>
    /\ rerun = << >>
    /\ printed = << >>
    /\ coordsPc = "init"

RerunIdle ==
    /\ interned = TRUE
    /\ listdir = {}
    /\ disk = << >>
    /\ folders = {}
    /\ equil = << >>
    /\ rerun = << >>
    /\ printed = << >>
    /\ coordsPc = "idle"

RerunNext == get_equil_coords

\* ------------------------------------------------------------------------
\* Classifying a log (GamessResults.completed, get_error)
\* ------------------------------------------------------------------------
VARIABLES
    status,     \* "RUNNING_OR_UNKNOWN", then "COMPLETED" or "FAILED"
    report,     \* what get_error returned or printed
    statusPc    \* "init", "classified" or "reported"

statusVars == <<status, report, statusPc>>

TerminatedNormally ==
    LogLine({"EXECUTION OF GAMESS TERMINATED NORMALLY", "\n"}, 0, "")

\* a line with the field RUNTYP=<word>; in runtyp=<word> only line.upper()
\* has 'RUNTYP='
RuntypLine(word) == LogLine({"RUNTYP=", "\n"}, 0, word)

LowerRuntypLine(word) == LogLine({"runtyp=", "\n"}, 0, word)

StatusLines ==
    {TerminatedNormally, EquilMarker, TextLine("text"),
     RuntypLine("OPTIMIZE"), RuntypLine("ENERGY"), LowerRuntypLine("optimize")}

TerminatedAtEnd(lines) ==
    lines # << >>
    /\ "EXECUTION OF GAMESS TERMINATED NORMALLY" \in lines[Len(lines)].marks

\* completed
RECURSIVE Completed(_)
Completed(lines) ==
    IF lines = << >> THEN FALSE
    ELSE LET rest == Completed(Tail(lines))
         IN  IF "EXECUTION OF GAMESS TERMINATED NORMALLY" \in Head(lines).marks
             THEN TRUE ELSE rest

\* get_runtype: the first field with 'RUNTYP=' in it, "None" when there is none
RECURSIVE GetRuntype(_)
GetRuntype(lines) ==
    IF lines = << >> THEN "None"
    ELSE IF "RUNTYP=" \in Head(lines).marks THEN Lower(Head(lines).word)
    ELSE GetRuntype(Tail(lines))

IsOptimisation(lines) == GetRuntype(lines) = "optimize"

NoEquilFirstLine(lines) ==
    lines = << >> \/ "EQUILIBRIUM GEOMETRY LOCATED" \notin lines[1].marks

\* the flag no_equil after the loop of get_error
RECURSIVE NoEquil(_)
NoEquil(lines) ==
    IF lines = << >> THEN TRUE
    ELSE IF "EQUILIBRIUM GEOMETRY LOCATED" \in Head(lines).marks THEN FALSE
    ELSE NoEquil(Tail(lines))

NoEquilMessage == "No equilibrium geometry found- need to resubmit with rerun.xyz"
MemoryMessage  == "Memory Error- check allocation before resubmitting"

\* get_error: nothing of its own for a run that is no optimisation
GetError(lines) ==
    IF IsOptimisation(lines)
    THEN IF NoEquil(lines) THEN NoEquilMessage ELSE MemoryMessage
    ELSE ""

StatusInit ==
    /\ log \in Logs(StatusLines, MaxLogLines)
    /\ status = "RUNNING_OR_UNKNOWN"
    /\ report = ""
    /\ statusPc = "init"

StatusIdle ==
    /\ status = "RUNNING_OR_UNKNOWN"
    /\ report = ""
    /\ statusPc = "idle"

completed ==
    /\ statusPc = "init"
    /\ status' = IF Completed(log) THEN "COMPLETED" ELSE "FAILED"
    /\ statusPc' = "classified"
    /\ UNCHANGED <<log, report>>

\* if not self.completed(): self.get_error()
get_error ==
    /\ statusPc = "classified"
    /\ status = "FAILED"
    /\ report' = GetError(log)
    /\ statusPc' = "reported"
    /\ UNCHANGED <<log, status>>

StatusNext == completed \/ get_error

\* ------------------------------------------------------------------------
\* Interaction energies (user_scripts/int_energies.py)
\* ------------------------------------------------------------------------
MaxRecords == 3

VARIABLES
    csvLines,   \* the lines of the results CSV after its header line
    groups,     \* what group_files returned: a list of [molecule, jobs] in
                \* insertion order
    energies,   \* what calculate_energies returned
    configs,    \* the argument of rank_configs, in insertion order
    ranked,     \* what rank_configs returned: (cation, anion) |-> records
    aggPc       \* position in calculate_interaction_energies

aggVars == <<csvLines, groups, energies, configs, ranked, aggPc>>

Slash == Kw("/")

\* energies in tenths of a Hartree; 2625.5 kJ/mol per Hartree makes one tenth
\* 26255 hundredths of a kJ/mol
CsvLine(file, path, basis, hf, mp2) ==
    Join(<<file, Join(path, Slash), basis, IntStr(hf), IntStr(mp2)>>, Comma)

Segs(names) == [i \in DOMAIN names |-> <<Kw(names[i])>>]

\* the records of two systems, and three records that cannot be parsed: a
\* path with no run-type segment, a path that starts with it, a line of four
\* fields
GoodRecords ==
    { CsvLine(<<Kw("spec.log")>>, Segs(<<"c4mim", "ac", "spec", "complex">>),
              <<Kw("CCT")>>, -990, -1000),
      CsvLine(<<Kw("spec.log")>>, Segs(<<"c4mim", "ac", "spec", "frags", "c4mim_0">>),
              <<Kw("CCT")>>, -395, -400),
      CsvLine(<<Kw("spec.log")>>, Segs(<<"c4mim", "ac", "spec", "frags", "ac_1">>),
              <<Kw("CCT")>>, -590, -598),
      CsvLine(<<Kw("spec.log")>>, Segs(<<"ch", "ac", "spec", "complex">>),
              <<Kw("CCT")>>, -700, -710) }

BadRecords ==
    { CsvLine(<<Kw("spec.log")>>, Segs(<<"c4mim", "ac", "complex">>),
              <<Kw("CCT")>>, -990, -1000),
      CsvLine(<<Kw("spec.log")>>, Segs(<<"spec", "complex">>),
              <<Kw("CCT")>>, -990, -1000),
      Join(<<<<Kw("spec.log")>>, Join(Segs(<<"ch", "ac", "spec", "complex">>), Slash),
             <<Kw("CCT")>>, IntStr(-700)>>, Comma) }

RunDirs == {<<Kw("opt")>>, <<Kw("spec")>>, <<Kw("hess")>>}

\* split_path: the 0-based index of the first run-type segment, 0 if none
Upto(path_split) ==
    IF \E i \in DOMAIN path_split : path_split[i] \in RunDirs
    THEN Min({i \in DOMAIN path_split : path_split[i] \in RunDirs}) - 1
    ELSE 0

\* with upto = 0 path_to_mol is not bound and the function raises
\* UnboundLocalError
SplitPath(path) ==
    LET path_split == Split(path, Slash)
        upto == Upto(path_split)
    IN  IF upto = 0
        THEN [raised |-> TRUE, path_to |-> << >>, path_after_run |-> << >>]
        ELSE [raised |-> FALSE,
              path_to |-> Join(SubSeq(path_split, 1, upto), Slash),
              path_after_run |->
                  Join(SubSeq(path_split, upto + 2, Len(path_split)), Slash)]

\* groups[molecule].append(job), a new molecule going to the end
AddJob(gs, molecule, job) ==
    IF \E i \in DOMAIN gs : gs[i].molecule = molecule
    THEN [i \in DOMAIN gs |->
            IF gs[i].molecule = molecule
            THEN [gs[i] EXCEPT !.jobs = Append(@, job)] ELSE gs[i]]
    ELSE Append(gs, [molecule |-> molecule, jobs |-> <<job>>])

\* group_files: the loop over the lines; the unpacking of a line that has
\* not five fields raises ValueError
RECURSIVE GroupFiles(_, _)
GroupFiles(lines, gs) ==
    IF lines = << >> THEN [raised |-> FALSE, groups |-> gs]
    ELSE LET fields == Split(Head(lines), Comma)
         IN  IF Len(fields) # 5 THEN [raised |-> TRUE, groups |-> << >>]
             ELSE LET sp == SplitPath(fields[2])
                  IN  IF sp.raised THEN [raised |-> TRUE, groups |-> << >>]
                      ELSE GroupFiles(Tail(lines),
                              AddJob(gs, sp.path_to,
                                  [file  |-> sp.path_after_run \o <<Slash>> \o fields[1],
                                   basis |-> fields[3],
                                   hf    |-> fields[4],
                                   mp2   |-> fields[5]]))

\* calculate_energies prints each group and has no return statement (its
\* nested functions are never called): it returns None
None == [isNone |-> TRUE, results |-> << >>, purely_ionic |-> TRUE]

CalculateEnergies(d) == None

MaxConfigs == 3

\* sorted(energies, key = lambda tup: tup[1]): stable, ascending
RECURSIVE InsertByEnergy(_, _)
InsertByEnergy(sorted, x) ==
    IF sorted = << >> THEN <<x>>
    ELSE IF x.total_mp2 < Head(sorted).total_mp2 THEN <<x>> \o sorted
    ELSE <<Head(sorted)>> \o InsertByEnergy(Tail(sorted), x)

InInsertionOrder(family) == family

RECURSIVE SortByEnergy(_)
SortByEnergy(family) ==
    IF family = << >> THEN << >>
    ELSE InsertByEnergy(SortByEnergy(SubSeq(family, 1, Len(family) - 1)),
                        family[Len(family)])

\* sorted(lst, key = lambda kv: kv[1]['rank'])
RECURSIVE InsertByRank(_, _)
InsertByRank(sorted, x) ==
    IF sorted = << >> THEN <<x>>
    ELSE IF x.rank < Head(sorted).rank THEN <<x>> \o sorted
    ELSE <<Head(sorted)>> \o InsertByRank(Tail(sorted), x)

RECURSIVE SortByRank(_)
SortByRank(family) ==
    IF family = << >> THEN << >>
    ELSE InsertByRank(SortByRank(SubSeq(family, 1, Len(family) - 1)),
                      family[Len(family)])

\* the index (from 1) of the configuration in sorted_vals
RankOf(sorted_vals, path) ==
    CHOOSE i \in DOMAIN sorted_vals : sorted_vals[i].path = path

\* the loop that sets rank and deltaE in one family
WithRanks(family) ==
    LET sorted_vals == SortByEnergy(family)
    IN  [i \in DOMAIN family |->
            [path      |-> family[i].path,
             cation    |-> family[i].cation,
             anion     |-> family[i].anion,
             total_mp2 |-> family[i].total_mp2,
             rank      |-> RankOf(sorted_vals, family[i].path),
             deltaE    |-> family[i].total_mp2 - sorted_vals[1].total_mp2]]

\* the bins are filled by the cation alone
RankConfigsByCation(data) ==
    LET cations == {data[i].cation : i \in DOMAIN data}
        anions  == {data[i].anion : i \in DOMAIN data}
        Bin(c, a) == SelectSeq(data, LAMBDA v : v.cation = c)
    IN  [f \in cations \X anions |-> SortByRank(WithRanks(Bin(f[1], f[2])))]

\* rank_configs: one family for every cation and every anion that occurs
RankConfigs(data) ==
    LET cations == {data[i].cation : i \in DOMAIN data}
        anions  == {data[i].anion : i \in DOMAIN data}
        Bin(c, a) == SelectSeq(data, LAMBDA v : v.cation = c /\ v.anion = a)
    IN  [f \in cations \X anions |-> SortByRank(WithRanks(Bin(f[1], f[2])))]

Config(path, cation, anion, total_mp2) ==
    [path |-> path, cation |-> cation, anion |-> anion, total_mp2 |-> total_mp2]

\* assign_molecules leaves '' where no species of the path is known
CationLabels == {"c4mim", "choline", ""}
AnionLabels  == {"acetate", ""}
TotalEnergies == {-12, -11, -10}

AggInit ==
    /\ \E n \in 0..MaxRecords :
          csvLines \in [1..n -> GoodRecords \cup BadRecords]
    /\ groups = << >>
    /\ energies = << >>
    /\ configs = << >>
    /\ ranked = << >>
    /\ aggPc = "init"

RankInit ==
    /\ csvLines = << >>
    /\ groups = << >>
    /\ energies = << >>
    /\ \E n \in 0..MaxConfigs :
          \E c \in [1..n -> CationLabels], a \in [1..n -> AnionLabels],
             e \in [1..n -> TotalEnergies] :
             configs = [i \in 1..n |-> Config(i, c[i], a[i], e[i])]
    /\ ranked = << >>
    /\ aggPc = "assigned"

AggIdle ==
    /\ csvLines = << >>
    /\ groups = << >>
    /\ energies = << >>
    /\ configs = << >>
    /\ ranked = << >>
    /\ aggPc = "idle"

\* data = group_files(csv)
group_files ==
    /\ aggPc = "init"
    /\ LET r == GroupFiles(csvLines, << >>)
       IN  /\ groups' = r.groups
           /\ aggPc' = IF r.raised THEN "raised" ELSE "grouped"
    /\ UNCHANGED <<csvLines, energies, configs, ranked>>

\* new_data, purely_ionic = calculate_energies(data): None cannot be
\* unpacked, TypeError
calculate_energies ==
    /\ aggPc = "grouped"
    /\ energies' = CalculateEnergies(groups)
    /\ aggPc' = IF energies'.isNone THEN "raised" ELSE "calculated"
    /\ UNCHANGED <<csvLines, groups, configs, ranked>>

\* ranked = rank_configs(assigned)
rank_configs ==
    /\ aggPc = "assigned"
    /\ ranked' = RankConfigs(configs)
    /\ aggPc' = "ranked"
    /\ UNCHANGED <<csvLines, groups, energies, configs>>

AggNext == group_files \/ calculate_energies

RankNext == rank_configs

\* ------------------------------------------------------------------------
\* The PSI4 input deck (PsiJob.create_inp)
\* ------------------------------------------------------------------------
MaxAdditional == 2

VARIABLES
    run,          \* self.input.run: the items in insertion order, each
                  \* [key, value, items]; items are the entries of the
                  \* mapping under 'additional'
    psiFilename,  \* self.filename ([has |-> FALSE] for None)
    psiInp,       \* self.inp: the parts of the deck
    psiBaseName,  \* self.base_name
    psiPc         \* "init" or "done"

psiVars == <<run, psiFilename, psiInp, psiBaseName, psiPc>>

RunItem(key, value) == [key |-> key, value |-> value, items |-> << >>]

Additional(items) == [key |-> "additional", value |-> "", items |-> items]

\* the alphabet, in alphabetical order
RunWords ==
    <<"bsse_type", "dertype", "energy", "frequency", "hessian", "optimize", "option2">>

Alphabetical(a, b) ==
    (CHOOSE i \in DOMAIN RunWords : RunWords[i] = a)
        < (CHOOSE i \in DOMAIN RunWords : RunWords[i] = b)

\* the tuples (counter, key, value) of add_run, in the order of the appends
RECURSIVE Numbered(_, _)
Numbered(items, counter) ==
    IF items = << >> THEN << >>
    ELSE <<[counter |-> counter, key |-> Head(items).key, value |-> Head(items).value]>>
            \o Numbered(Tail(items), counter + 1)

RECURSIVE RunTuples(_)
RunTuples(items) ==
    IF items = << >> THEN << >>
    ELSE (IF Head(items).key # "additional"
          THEN <<[counter |-> 0, key |-> Head(items).key, value |-> Head(items).value]>>
          ELSE Numbered(Head(items).items, 1))
            \o RunTuples(Tail(items))

RECURSIVE InsertByKeyName(_, _)
InsertByKeyName(sorted, x) ==
    IF sorted = << >> THEN <<x>>
    ELSE IF Alphabetical(x.key, Head(sorted).key) THEN <<x>> \o sorted
    ELSE <<Head(sorted)>> \o InsertByKeyName(Tail(sorted), x)

RECURSIVE InsertByCounter(_, _)
InsertByCounter(sorted, x) ==
    IF sorted = << >> THEN <<x>>
    ELSE IF x.counter < Head(sorted).counter THEN <<x>> \o sorted
    ELSE <<Head(sorted)>> \o InsertByCounter(Tail(sorted), x)

RECURSIVE SortedByKeyName(_)
SortedByKeyName(res) ==
    IF res = << >> THEN << >>
    ELSE InsertByKeyName(SortedByKeyName(SubSeq(res, 1, Len(res) - 1)), res[Len(res)])

\* sorted(res, key = lambda val: val[0])
RECURSIVE SortedByCounter(_)
SortedByCounter(res) ==
    IF res = << >> THEN << >>
    ELSE InsertByCounter(SortedByCounter(SubSeq(res, 1, Len(res) - 1)), res[Len(res)])

RECURSIVE RunArguments(_)
RunArguments(res) ==
    IF res = << >> THEN << >>
    ELSE <<Kw(", "), Kw(Head(res).key), Kw("='"), Kw(Head(res).value), Kw("'")>>
            \o RunArguments(Tail(res))

\* the string that add_run appends
RunString(items) ==
    LET res == SortedByCounter(RunTuples(items))
    IN  <<Kw(res[1].key), Kw("('"), Kw(res[1].value), Kw("'")>>
            \o RunArguments(Tail(res)) \o <<Kw(")")>>

\* make_header, add_unbound and add_globals, with the options of the template
PsiHeader ==
    << <<Kw("# PSI4 Calc")>>, <<Kw("memory")>>, <<Kw("molecule complex {")>>,
       <<Kw("}")>>, <<Kw("set globals {")>>, <<Kw("}")>> >>

\* nom: the last key of run that is not 'additional'
RECURSIVE Nom(_, _)
Nom(items, nom) ==
    IF items = << >> THEN nom
    ELSE Nom(Tail(items), IF Head(items).key # "additional" THEN Head(items).key ELSE nom)

\* PsiJob.file_basename
PsiFileBasename(fname, items) ==
    IF fname.has THEN fname.v
    ELSE LET nom == Nom(items, "")
         IN  CASE nom = "optimize" -> "opt" [] nom = "energy" -> "spec"
               [] nom = "frequency" -> "hess" [] OTHER -> "file"

RunKeywords == {"optimize", "energy", "frequency", "hessian"}
Methods == {"mp2", "scf"}
AdditionalKeys == {"dertype", "bsse_type", "option2"}

AdditionalValue(key) ==
    CASE key = "dertype" -> "energy" [] key = "bsse_type" -> "cp" [] OTHER -> "value"

AdditionalOrders ==
    UNION { {o \in [1..k -> AdditionalKeys] : Injective(o)} : k \in 0..MaxAdditional }

PsiDeckInit ==
    /\ \E k \in RunKeywords, m \in Methods :
          \/ run = <<RunItem(k, m)>>
          \/ \E o \in AdditionalOrders :
                LET add == Additional([i \in DOMAIN o |->
                                          RunItem(o[i], AdditionalValue(o[i]))])
                IN  run \in {<<RunItem(k, m), add>>, <<add, RunItem(k, m)>>}
    /\ psiFilename \in {NoFilename, [has |-> TRUE, v |-> "benzene"]}
    /\ psiInp = << >>
    /\ psiBaseName = ""
    /\ psiPc = "init"

PsiDeckIdle ==
    /\ run = << >>
    /\ psiFilename = NoFilename
    /\ psiInp = << >>
    /\ psiBaseName = ""
    /\ psiPc = "idle"

Psi_create_inp ==
    /\ psiPc = "init"
    /\ psiInp' = Append(PsiHeader, RunString(run))
    /\ psiBaseName' = PsiFileBasename(psiFilename, run)
    /\ psiPc' = "done"
    /\ UNCHANGED <<run, psiFilename>>

PsiDeckNext == Psi_create_inp

\* the primary item of run and the entries under 'additional'
Primary == run[CHOOSE i \in DOMAIN run : run[i].key # "additional"]

Declared ==
    IF \E i \in DOMAIN run : run[i].key = "additional"
    THEN run[CHOOSE i \in DOMAIN run : run[i].key = "additional"].items
    ELSE << >>

SpecifiedBaseName(fname, runType) ==
    IF fname.has THEN fname.v
    ELSE CASE runType = "optimize" -> "opt" [] runType = "energy" -> "spec"
           [] runType \in {"hessian", "frequency"} -> "hess"

\* C20 (as specified; the code departs from it): the base name is the
\* filename the caller gives; without one it is opt for run type optimize,
\* spec for energy and hess for hessian/frequency, in the GAMESS builder and
\* in the PSI4 builder.
C20_BaseName ==
    /\ psiPc = "done" => psiBaseName = SpecifiedBaseName(psiFilename, Primary.key)
    /\ inpPc = "done" =>
          baseName = SpecifiedBaseName(filename, Get(input, "contrl", "runtyp"))

\* ------------------------------------------------------------------------
\* Properties of the log reader (checked under SpecRerun and SpecStatus)
\* ------------------------------------------------------------------------
HasMarker(marker) == \E i \in DOMAIN log : marker \in log[i].marks

\* the last-point marker, then a line of the geometry before any blank line
HasLastPointBlock ==
    \E i, j \in DOMAIN log :
        /\ i < j
        /\ "ALWAYS THE LAST POINT COMPUTED" \in log[i].marks
        /\ Matches(log[j])
        /\ \A k \in DOMAIN log : (i < k /\ k < j) => log[k] # BlankLine

RerunWritten ==
    /\ coordsPc = "done"
    /\ "rerun" \in folders
    /\ "rerun/rerun.xyz" \in DOMAIN disk
    /\ disk["rerun/rerun.xyz"] = XyzText(rerun)
    /\ "rerun/rerun.inp" \in DOMAIN disk
    /\ LET deck == disk["rerun/rerun.inp"]
           head == UntilCoords(disk[InpName])
       IN  /\ Len(deck) = Len(head) + Len(rerun) + 1
           /\ SubSeq(deck, 1, Len(head)) = head
           /\ \A i \in DOMAIN rerun :
                 deck[Len(head) + i] = WithNewline(rerun[i])
           /\ deck[Len(deck)] = DeckEnd

\* C11 (as specified; the code departs from it): for a log with no
\* equilibrium marker and a non-empty last-point block, whose input deck is
\* beside it, get_equil_coords creates rerun/, writes rerun/rerun.xyz with the
\* extracted coordinates and writes rerun/rerun.inp: the lines of the original
\* input before its first coordinate line, the extracted coordinates in log
\* order, and ' $END' as the last line.
C11_RerunDeckWritten ==
    (/\ coordsPc \in {"done", "raised"}
     /\ ~HasMarker("EQUILIBRIUM GEOMETRY LOCATED")
     /\ HasLastPointBlock
     /\ InpName \in DOMAIN disk)
        => RerunWritten

\* the index of the first line '\n' after line i, Len(log) + 1 when none
BlockEnd(i) ==
    IF \E j \in (i + 1)..Len(log) : log[j] = BlankLine
    THEN Min({j \in (i + 1)..Len(log) : log[j] = BlankLine})
    ELSE Len(log) + 1

\* the lines from line i to the next blank line that match the geometry
\* pattern, without their newline
BlockCoords(i) ==
    LET block == SubSeq(log, i, BlockEnd(i) - 1)
        coord == SelectSeq(block, Matches)
    IN  [k \in DOMAIN coord |-> Chomp(coord[k])]

\* C24 (as specified; the code departs from it): the coordinates extracted
\* for a rerun are the lines that match the geometry pattern between the
\* 'ALWAYS THE LAST POINT COMPUTED' marker and the next blank line, in log
\* order; matching lines after that blank line and lines of other geometry
\* blocks are not among them, and rerun.xyz holds just these.
C24_RerunBlockOnly ==
    (coordsPc \in {"done", "raised"} /\ printed = <<NeedsResubmitting>>) =>
        \E i \in DOMAIN log :
            /\ "ALWAYS THE LAST POINT COMPUTED" \in log[i].marks
            /\ rerun = BlockCoords(i)
            /\ "rerun/rerun.xyz" \in DOMAIN disk
            /\ disk["rerun/rerun.xyz"] = XyzText(BlockCoords(i))

\* the rerun artifacts
RerunPaths == {"rerun/rerun.xyz", "rerun/rerun.inp", "rerun/rerun.job"}

\* C27: one call of get_equil_coords never writes both equil.xyz and rerun
\* artifacts: when at least one equilibrium coordinate line was collected,
\* equil.xyz is written and nothing else, also when the log has a last-point
\* block; rerun/ and its files are written only when no equilibrium
\* coordinates were collected.
C27_EquilOrRerunNeverBoth ==
    [][(coordsPc = "init" /\ coordsPc' # "init") =>
          /\ Len(equil') > 0 =>
                /\ disk' = Put(disk, "equil.xyz", XyzText(equil'))
                /\ folders' = folders
          /\ (\/ folders' # folders
              \/ \E p \in RerunPaths :
                    /\ p \in DOMAIN disk'
                    /\ p \notin DOMAIN disk \/ disk'[p] # disk[p])
                => /\ Len(equil') = 0
                   /\ "equil.xyz" \notin DOMAIN disk']_<<log, rerunVars>>

C27_Witness ==
    /\ coordsPc = "done"
    /\ Len(equil) > 0
    /\ Len(rerun) > 0
    /\ HasLastPointBlock
    /\ "equil.xyz" \in DOMAIN disk
    /\ "rerun" \notin folders
    /\ RerunPaths \cap DOMAIN disk = {}

\* C12: when the log yields neither an equilibrium geometry nor a last-point
\* geometry, get_equil_coords prints that no iterations completed and leaves
\* the directories and files as they were.
C12_NoGeometryNoFiles ==
    [][(coordsPc = "init" /\ equil' = << >> /\ rerun' = << >>)
          => /\ printed' = <<NoIterations>>
             /\ disk' = disk
             /\ folders' = folders]_<<log, rerunVars>>

C12_Witness ==
    /\ coordsPc = "done"
    /\ printed = <<NoIterations>>
    /\ HasMarker("ALWAYS THE LAST POINT COMPUTED")
    /\ \E i \in DOMAIN log : Matches(log[i])
    /\ "rerun" \notin folders
    /\ DOMAIN disk = {InpName, JobName}

\* C13: for a log without the normal-termination marker whose run type is
\* optimize, get_error reports the memory diagnosis if and only if the log
\* has 'EQUILIBRIUM GEOMETRY LOCATED', and otherwise reports that no
\* equilibrium geometry was found and the job is to be resubmitted.
C13_ErrorDiagnosis ==
    (/\ statusPc = "reported"
     /\ ~HasMarker("EXECUTION OF GAMESS TERMINATED NORMALLY")
     /\ IsOptimisation(log))
        => /\ (report = MemoryMessage) <=> HasMarker("EQUILIBRIUM GEOMETRY LOCATED")
           /\ ~HasMarker("EQUILIBRIUM GEOMETRY LOCATED") => report = NoEquilMessage

C13_Witness ==
    /\ statusPc = "reported"
    /\ IsOptimisation(log)
    /\ Len(log) >= 3
    /\ "EQUILIBRIUM GEOMETRY LOCATED" \in log[Len(log)].marks
    /\ report = MemoryMessage

\* C14: a log is classified as exactly one of COMPLETED and FAILED;
\* COMPLETED exactly when some line of the log, wherever it is, has
\* 'EXECUTION OF GAMESS TERMINATED NORMALLY'; the log is not modified.
C14_CompletedIffMarker ==
    /\ [](statusPc \in {"classified", "reported"} =>
            /\ status \in {"COMPLETED", "FAILED"}
            /\ (status = "COMPLETED")
                  <=> HasMarker("EXECUTION OF GAMESS TERMINATED NORMALLY"))
    /\ [][statusPc = "init" => log' = log]_<<log, statusVars>>

C14_Witness ==
    /\ statusPc = "classified"
    /\ status = "COMPLETED"
    /\ Len(log) >= 2
    /\ "EXECUTION OF GAMESS TERMINATED NORMALLY" \in log[1].marks
    /\ "EXECUTION OF GAMESS TERMINATED NORMALLY" \notin log[Len(log)].marks

\* ------------------------------------------------------------------------
\* Properties of the aggregation (checked under SpecAgg and SpecRank)
\* ------------------------------------------------------------------------
RECURSIVE SumMp2(_)
SumMp2(jobs) ==
    IF jobs = << >> THEN 0 ELSE ParseInt(Head(jobs).mp2) + SumMp2(Tail(jobs))

InDirectory(job, name) == Kw(name) \in Range(job.file)

\* (E_complex - sum of the fragment energies) * 2625.5, in hundredths of a
\* kJ/mol
ExpectedInteraction(jobs) ==
    (SumMp2(SelectSeq(jobs, LAMBDA j : InDirectory(j, "complex")))
        - SumMp2(SelectSeq(jobs, LAMBDA j : InDirectory(j, "frags")))) * 26255

\* C15 (as specified; the code departs from it): for every system of a CSV
\* whose records all parse, the aggregator computes the interaction energy
\* (E_complex minus the sum of the energies of all fragment records of the
\* system) times 2625.5 kJ/mol.
C15_InteractionEnergy ==
    (/\ aggPc \in {"calculated", "raised"}
     /\ csvLines # << >>
     /\ Range(csvLines) \subseteq GoodRecords)
        => /\ aggPc = "calculated"
           /\ \A g \in Range(groups) :
                 \E r \in Range(energies.results) :
                    /\ r.molecule = g.molecule
                    /\ r.total_mp2 = ExpectedInteraction(g.jobs)

Families == DOMAIN ranked

\* C16: in each cation-anion family of n configurations the ranks are
\* exactly 1..n in ascending order of total_mp2, and each deltaE is the
\* record's total_mp2 minus that of the rank-1 record of the family.
C16_RanksAndGaps ==
    aggPc = "ranked" =>
        \A f \in Families :
            LET recs == ranked[f]
                n    == Cardinality({i \in DOMAIN configs :
                            configs[i].cation = f[1] /\ configs[i].anion = f[2]})
            IN  /\ Len(recs) = n
                /\ {recs[i].rank : i \in DOMAIN recs} = 1..n
                /\ \A i, j \in DOMAIN recs :
                      recs[i].rank < recs[j].rank
                          => recs[i].total_mp2 <= recs[j].total_mp2
                /\ \A i, j \in DOMAIN recs :
                      recs[j].rank = 1
                          => recs[i].deltaE = recs[i].total_mp2 - recs[j].total_mp2
                /\ \A i \in DOMAIN recs : recs[i].deltaE >= 0

C16_Witness ==
    /\ aggPc = "ranked"
    /\ configs = <<Config(1, "c4mim", "acetate", -10),
                   Config(2, "c4mim", "acetate", -12),
                   Config(3, "c4mim", "acetate", -11)>>
    /\ LET recs == ranked[<<"c4mim", "acetate">>]
       IN  /\ [i \in 1..3 |-> recs[i].path] = <<2, 3, 1>>
           /\ [i \in 1..3 |-> recs[i].rank] = <<1, 2, 3>>
           /\ [i \in 1..3 |-> recs[i].total_mp2] = <<-12, -11, -10>>
           /\ [i \in 1..3 |-> recs[i].deltaE] = <<0, 1, 2>>

\* the positions of the configuration path in family f of the output
Occurrences(f, path) == {k \in DOMAIN ranked[f] : ranked[f][k].path = path}

\* C28: rank_configs loses no record and duplicates none: every input
\* configuration is in exactly one (cation, anion) family of the output, the
\* family of its own labels (the empty label included), with its labels and
\* energy unchanged, and the records of each family are in order of rank.
C28_NoRecordLostOrDuplicated ==
    aggPc = "ranked" =>
        /\ \A i \in DOMAIN configs :
              LET own == <<configs[i].cation, configs[i].anion>>
              IN  /\ own \in Families
                  /\ Cardinality(Occurrences(own, configs[i].path)) = 1
                  /\ \A k \in Occurrences(own, configs[i].path) :
                        /\ ranked[own][k].cation = configs[i].cation
                        /\ ranked[own][k].anion = configs[i].anion
                        /\ ranked[own][k].total_mp2 = configs[i].total_mp2
                  /\ \A f \in Families \ {own} :
                        Occurrences(f, configs[i].path) = {}
        /\ \A f \in Families : \A k \in DOMAIN ranked[f] :
              \E i \in DOMAIN configs : configs[i].path = ranked[f][k].path
        /\ \A f \in Families : \A j, k \in DOMAIN ranked[f] :
              j < k => ranked[f][j].rank < ranked[f][k].rank

C28_Witness ==
    /\ aggPc = "ranked"
    /\ Len(configs) = 3
    /\ \E i, j, k \in DOMAIN configs :
          /\ i < j
          /\ configs[i].cation = configs[j].cation
          /\ configs[i].anion = configs[j].anion
          /\ configs[i].total_mp2 > configs[j].total_mp2
          /\ configs[k].anion = "" /\ configs[i].anion # ""
          /\ configs[k].cation # configs[i].cation
    /\ \E f \in Families : ranked[f] = << >>

Parseable(line) ==
    LET fields == Split(line, Comma)
    IN  Len(fields) = 5 /\ ~SplitPath(fields[2]).raised

\* C17 (as specified; the code departs from it): when a record of the CSV
\* cannot be parsed, the aggregation still groups every remaining record; it
\* does not abort the batch.
C17_BadRecordIsolated ==
    aggPc \in {"grouped", "calculated", "raised"} =>
        groups = GroupFiles(SelectSeq(csvLines, Parseable), << >>).groups

\* the components that the specifications below leave alone
dataVars == <<dataResult, dataPc>>

restVars == <<rerunVars, statusVars, aggVars, psiVars>>

DataIdle ==
    /\ dataResult = [raised |-> FALSE, basis |-> "", HF |-> Empty, MP2 |-> Empty]
    /\ dataPc = "idle"

RestIdle == RerunIdle /\ StatusIdle /\ AggIdle /\ PsiDeckIdle

vars == <<fmoVars, fragsVars, placeVars, inpVars, logVars, restVars>>

InitFmo == FmoInit /\ FragsIdle /\ PlaceIdle /\ InpIdle /\ LogIdle /\ RestIdle
NextFmo == FmoNext /\ UNCHANGED <<fragsVars, placeVars, inpVars, logVars, restVars>>
SpecFmo == InitFmo /\ [][NextFmo]_vars

InitFrags == FragsInit /\ FmoIdle /\ PlaceIdle /\ InpIdle /\ LogIdle /\ RestIdle
NextFrags ==
    /\ FragsNext
    /\ UNCHANGED <<runtyp, molIndat, molCharg, indat, charg, fmoData, fmoPc,
                   placeVars, inpVars, logVars, restVars>>
SpecFrags == InitFrags /\ [][NextFrags]_vars

InitPlace ==
    /\ PlaceInit /\ FmoIdle /\ FragsIdle /\ InpIdle /\ LogIdle /\ RestIdle
    /\ fragments = << >>
NextPlace ==
    PlaceNext /\ UNCHANGED <<fmoVars, fragsVars, inpVars, logVars, restVars>>
SpecPlace == InitPlace /\ [][NextPlace]_vars

\* decks for every insertion order of the option blocks
InitInp ==
    InpInit /\ InpInitOrders /\ FragsIdle /\ PlaceIdle /\ LogIdle /\ RestIdle
NextInp == InpNext /\ UNCHANGED <<fragsVars, placeVars, logVars, restVars>>
SpecInp == InitInp /\ [][NextInp]_vars

\* decks for the values of the options, the blocks in the order of the
\* class docstring
InitOpts ==
    InpInit /\ InpInitValues /\ FragsIdle /\ PlaceIdle /\ LogIdle /\ RestIdle
SpecOpts == InitOpts /\ [][NextInp]_vars

InitLog ==
    /\ LogInit /\ FmoIdle /\ FragsIdle /\ PlaceIdle /\ InpIdle /\ RestIdle
    /\ fragments = << >>
NextLog ==
    LogNext /\ UNCHANGED <<fmoVars, fragsVars, placeVars, inpVars, restVars>>
SpecLog == InitLog /\ [][NextLog]_vars

InitRerun ==
    /\ RerunInit /\ DataIdle /\ StatusIdle /\ AggIdle /\ PsiDeckIdle
    /\ FmoIdle /\ FragsIdle /\ PlaceIdle /\ InpIdle
    /\ fragments = << >>
NextRerun ==
    /\ RerunNext
    /\ UNCHANGED <<fmoVars, fragsVars, placeVars, inpVars, dataVars, statusVars,
                   aggVars, psiVars>>
SpecRerun == InitRerun /\ [][NextRerun]_vars

InitStatus ==
    /\ StatusInit /\ DataIdle /\ RerunIdle /\ AggIdle /\ PsiDeckIdle
    /\ FmoIdle /\ FragsIdle /\ PlaceIdle /\ InpIdle
    /\ fragments = << >>
NextStatus ==
    /\ StatusNext
    /\ UNCHANGED <<fmoVars, fragsVars, placeVars, inpVars, dataVars, rerunVars,
                   aggVars, psiVars>>
SpecStatus == InitStatus /\ [][NextStatus]_vars

InitAgg ==
    /\ AggInit /\ LogIdle /\ RerunIdle /\ StatusIdle /\ PsiDeckIdle
    /\ FmoIdle /\ FragsIdle /\ PlaceIdle /\ InpIdle
    /\ fragments = << >>
NextAgg ==
    /\ AggNext
    /\ UNCHANGED <<fmoVars, fragsVars, placeVars, inpVars, logVars, rerunVars,
                   statusVars, psiVars>>
SpecAgg == InitAgg /\ [][NextAgg]_vars

InitRank ==
    /\ RankInit /\ LogIdle /\ RerunIdle /\ StatusIdle /\ PsiDeckIdle
    /\ FmoIdle /\ FragsIdle /\ PlaceIdle /\ InpIdle
    /\ fragments = << >>
NextRank ==
    /\ RankNext
    /\ UNCHANGED <<fmoVars, fragsVars, placeVars, inpVars, logVars, rerunVars,
                   statusVars, psiVars>>
SpecRank == InitRank /\ [][NextRank]_vars

InitPsi ==
    /\ PsiDeckInit /\ LogIdle /\ RerunIdle /\ StatusIdle /\ AggIdle
    /\ FmoIdle /\ FragsIdle /\ PlaceIdle /\ InpIdle
    /\ fragments = << >>
NextPsi ==
    /\ PsiDeckNext
    /\ UNCHANGED <<fmoVars, fragsVars, placeVars, inpVars, logVars, rerunVars,
                   statusVars, aggVars>>
SpecPsi == InitPsi /\ [][NextPsi]_vars

====
